---- MODULE Spec2Model ----
(***************************************************************************)
(* Prediction-reconciliation pipeline of raiderpark:                       *)
(*   ReportBuffer / RealtimeAdjuster  (ml/inference/realtime_adjuster.py)  *)
(*   PredictionService and its cache  (ml/inference/predict.py)            *)
(*                                                                         *)
(* Numbers.  The code computes in float64.  The model computes in fixed    *)
(* point: 1.0 is Scale, so a confidence or a weight of 0.5 is 500 and an   *)
(* occupancy of 80 percent is 80000.  Products are divided back by Scale   *)
(* after every multiplication, truncating toward zero (Div).  Times are    *)
(* whole minutes since 2024-01-01T00:00:00.                                *)
(*                                                                         *)
(* Optional values.  Python's None is the empty tuple <<>> and a present   *)
(* value x is <<x>>, so that "x or default" (Or) can be modelled with its  *)
(* truthiness rule: None and 0 are both falsy.                             *)
(***************************************************************************)
EXTENDS Integers, Sequences, FiniteSets, TLC

VARIABLES
  now,        \* the wall clock read by datetime.now(), in minutes
  own_reports, \* ReportBuffer._reports of a buffer used on its own
  added,      \* history: every report handed to ReportBuffer.add of that buffer
  buffers,    \* RealtimeAdjuster._buffers: lot id -> ReportBuffer._reports
  out,        \* the last call made on the buffer / adjuster and what it returned
  cache,      \* PredictionService._cache: key -> (creation time, table)
  disk,       \* the file system: path -> None or the directory found there
  model,      \* PredictionService._model: None or the forecaster loaded
  model_path,                  \* PredictionService.model_path: None or a path
  calibrator,                  \* PredictionService._calibrator: None or the Calibrator
  enable_realtime_adjustment,  \* PredictionService._realtime_adjuster is not None
  ensemble,   \* the EnsembleModel: its configuration, meta-learners and base forecasters
  cache_predictions,           \* InferenceConfig.cache_predictions
  pc,         \* per caller: where it stands inside its current service call
  frame,      \* per caller: the locals of its current service call
  ret,        \* per caller: what its last completed service call returned
  version,    \* history: how many update_realtime_reports calls have reached the buffers
  returned    \* history: per lot, the version ingested by the last update that returned

vars == <<now, own_reports, added, buffers, out, cache, calibrator,
          enable_realtime_adjustment, ensemble,
          cache_predictions, pc, frame, ret, version, returned,
          disk, model, model_path>>

\* the artifact directory and the forecaster loaded from it
artifactVars == <<disk, model, model_path>>

----------------------------------------------------------------------------
(* Bounds of the model *)

\* capacity of a ReportBuffer (the code's default is 100)
max_size == 2
\* how many reports are ever added to the stand-alone buffer
MaxAdds == 3
\* the clock stops advancing here
MaxClock == 90

----------------------------------------------------------------------------
(* Program constants *)

Scale == 1000
decay_minutes == 30
min_reports == 2
max_adjustment == 25
cache_ttl_minutes == 5
adjustment_weight == (3 * Scale) \div 10
\* get_report_count(window_minutes=60) in adjust and adjust_single
COUNT_WINDOW == 60

None == <<>>
Some(x) == <<x>>

\* Python's "x or default" for an Optional number: None and 0 are falsy.
Or(x, default) == IF x = None \/ x[1] = 0 THEN default ELSE x[1]

\* float division result kept in fixed point, truncated toward zero
Div(a, b) == IF a >= 0 THEN a \div b ELSE -((-a) \div b)

Min(a, b) == IF a <= b THEN a ELSE b
Max(a, b) == IF a >= b THEN a ELSE b

\* np.clip(x, lo, hi) = minimum(maximum(x, lo), hi)
Clip(x, lo, hi) == Min(Max(x, lo), hi)

\* np.exp(-age_minutes / 30) * Scale, rounded, for age_minutes = 0 .. 90
ExpTable ==
  << 1000, 967, 936, 905, 875, 846, 819, 792, 766, 741, 717, 693, 670,
     648, 627, 607, 587, 567, 549, 531, 513, 497, 480, 465, 449, 435,
     420, 407, 393, 380, 368, 356, 344, 333, 322, 311, 301, 291, 282,
     273, 264, 255, 247, 239, 231, 223, 216, 209, 202, 195, 189, 183,
     177, 171, 165, 160, 155, 150, 145, 140, 135, 131, 127, 122, 118,
     115, 111, 107, 104, 100, 97, 94, 91, 88, 85, 82, 79, 77,
     74, 72, 69, 67, 65, 63, 61, 59, 57, 55, 53, 51, 50 >>

\* decay_weight = np.exp(-age_minutes / self.decay_minutes)
ExpDecay(age_minutes) == ExpTable[age_minutes + 1]

----------------------------------------------------------------------------
(* ReportBuffer *)

\* BufferAdd with the slice taken from the wrong end: keeps the oldest max_size reports instead of the newest
BufferAddKeepOldest(reports, r) ==
  LET appended == Append(reports, r)
  IN  IF Len(appended) > max_size THEN SubSeq(appended, 1, max_size) ELSE appended

\* ReportBuffer.add: append, then self._reports[-self.max_size:] when over capacity
BufferAdd(reports, r) ==
  LET appended == Append(reports, r)
  IN  IF Len(appended) > max_size
      THEN SubSeq(appended, Len(appended) - max_size + 1, Len(appended))
      ELSE appended

\* the loop of get_weighted_average over self._reports[i..], accumulating
\* (weighted_sum, total_weight)
RECURSIVE WeightedLoop(_, _, _, _, _)
WeightedLoop(reports, i, reference_time, window_minutes, acc) ==
  IF i > Len(reports) THEN acc
  ELSE LET r == reports[i]
           age_minutes == reference_time - r.ts
       IN  IF age_minutes > window_minutes \/ age_minutes < 0
           THEN WeightedLoop(reports, i + 1, reference_time, window_minutes, acc)
           ELSE LET weight == Div(ExpDecay(age_minutes) * r.confidence, Scale)
                IN  WeightedLoop(reports, i + 1, reference_time, window_minutes,
                      [sum    |-> acc.sum + weight * r.value,
                       weight |-> acc.weight + weight])

\* ReportBuffer.get_weighted_average(reference_time, window_minutes) read at
\* wall-clock time clock; both arguments are Optional
GetWeightedAverage(reports, reference_time, window_minutes, clock) ==
  IF reports = <<>> THEN [avg |-> None, weight |-> 0]
  ELSE LET ref == IF reference_time = None THEN clock ELSE reference_time[1]
           win == Or(window_minutes, decay_minutes * 3)
           acc == WeightedLoop(reports, 1, ref, win, [sum |-> 0, weight |-> 0])
       IN  IF acc.weight > 0
           THEN [avg |-> Some(Div(acc.sum, acc.weight)), weight |-> acc.weight]
           ELSE [avg |-> None, weight |-> 0]

\* ReportBuffer.get_report_count(window_minutes) read at wall-clock time clock
GetReportCount(reports, window_minutes, clock) ==
  LET cutoff == clock - window_minutes
  IN  Cardinality({i \in 1..Len(reports) : reports[i].ts >= cutoff})

----------------------------------------------------------------------------
(* RealtimeAdjuster *)

\* a report is the tuple (timestamp, value, confidence) of ReportBuffer._reports
Report(ts, value, confidence) ==
  [ts |-> ts, value |-> value, confidence |-> confidence]

\* str.lower() on the status strings the model feeds in
Lower(status) ==
  CASE status = "Empty"  -> "empty"
    [] status = "PACKED" -> "packed"
    [] OTHER             -> status

\* RealtimeAdjuster.STATUS_TO_OCCUPANCY.get(status.lower(), 50.0)
StatusToOccupancy(status) ==
  LET s == Lower(status)
  IN  CASE s = "empty"    -> 10 * Scale
        [] s = "low"      -> 30 * Scale
        [] s = "moderate" -> 50 * Scale
        [] s = "high"     -> 75 * Scale
        [] s = "full"     -> 95 * Scale
        [] s = "packed"   -> 100 * Scale
        [] OTHER          -> 50 * Scale

\* the body of update_reports' loop: one report dictionary to the tuple stored.
\* A dictionary is [timestamp, reported_status, confidence], each Optional; a
\* status is <<"str", s>> or <<"num", v>>.
NormalizeReport(report, clock) ==
  LET timestamp == IF report.timestamp = None THEN clock ELSE report.timestamp[1]
      status == IF report.reported_status = None
                THEN <<"str", "moderate">>
                ELSE report.reported_status[1]
      value == IF status[1] = "str" THEN StatusToOccupancy(status[2]) ELSE status[2]
      confidence == IF report.confidence = None THEN Scale ELSE report.confidence[1]
  IN  Report(timestamp, value, confidence)

\* buffer.add for every report of the list, in order
RECURSIVE AddAll(_, _, _, _)
AddAll(reports, dicts, i, clock) ==
  IF i > Len(dicts) THEN reports
  ELSE AddAll(BufferAdd(reports, NormalizeReport(dicts[i], clock)), dicts, i + 1, clock)

\* RealtimeAdjuster.update_reports: self._buffers[lot_id] creates the buffer
\* when the lot has none, then the reports are added
UpdateReports(bufs, lot_id, dicts, clock) ==
  LET existing == IF lot_id \in DOMAIN bufs THEN bufs[lot_id] ELSE <<>>
  IN  [l \in DOMAIN bufs \cup {lot_id} |->
         IF l = lot_id THEN AddAll(existing, dicts, 1, clock) ELSE bufs[l]]

\* _compute_adjustment before its final clip, for an adjuster constructed with
\* adjustment_weight = weight
RawAdjustmentWith(weight, model_prediction, reported_value, report_weight, model_confidence) ==
  LET diff == reported_value - model_prediction
      normalized_weight == Min(Scale, report_weight)
      uncertainty_factor == Scale - model_confidence
      factor == Scale \div 2 + Div(uncertainty_factor, 2)
  IN  Div(Div(Div(diff * weight, Scale) * normalized_weight, Scale) * factor, Scale)

\* _compute_adjustment before its final clip, adjustment_weight at its default
RawAdjustment(model_prediction, reported_value, report_weight, model_confidence) ==
  RawAdjustmentWith(adjustment_weight, model_prediction, reported_value,
                    report_weight, model_confidence)

\* _compute_adjustment with the final clip left out
ComputeAdjustmentNoClip(model_prediction, reported_value, report_weight, model_confidence) ==
  RawAdjustment(model_prediction, reported_value, report_weight, model_confidence)

\* _compute_adjustment with the difference scaled four times as much
ComputeAdjustmentOvershoot(model_prediction, reported_value, report_weight, model_confidence) ==
  Clip(4 * RawAdjustment(model_prediction, reported_value, report_weight,
                         model_confidence),
       -(max_adjustment * Scale), max_adjustment * Scale)

\* RealtimeAdjuster._compute_adjustment
ComputeAdjustment(model_prediction, reported_value, report_weight, model_confidence) ==
  Clip(RawAdjustment(model_prediction, reported_value, report_weight,
                     model_confidence),
       -(max_adjustment * Scale), max_adjustment * Scale)

\* the eligibility test of adjust and adjust_single with < written as <=
TooFewReportsOffByOne(reports, clock) ==
  GetReportCount(reports, COUNT_WINDOW, clock) + 1 < min_reports

\* report_count = buffer.get_report_count(window_minutes=60);
\* report_count < self.min_reports
TooFewReports(reports, clock) ==
  GetReportCount(reports, COUNT_WINDOW, clock) < min_reports

\* a prediction with the point estimate moved by adjustment and both bounds by
\* 0.8 * adjustment, each clipped to [0, 100]
ApplyAdjustment(p, adjustment) ==
  [p EXCEPT
     !.predicted_occupancy = Clip(p.predicted_occupancy + adjustment, 0, 100 * Scale),
     !.lower_bound = Clip(p.lower_bound + Div(adjustment * 8, 10), 0, 100 * Scale),
     !.upper_bound = Clip(p.upper_bound + Div(adjustment * 8, 10), 0, 100 * Scale)]

\* what adjust does to one row of the table: the row it leaves in the result
\* and the adjustment it computed for it (None when the row is passed over).
\* get_report_count reads the clock as count_clock and the default-reference
\* get_weighted_average reads it as average_clock.
AdjustRowAt(row, bufs, count_clock, average_clock) ==
  LET skip == [row |-> row, adjustment |-> None]
  IN  IF row.lot_id \notin DOMAIN bufs THEN skip
      ELSE LET buffer == bufs[row.lot_id]
           IN  IF TooFewReports(buffer, count_clock) THEN skip
               ELSE IF GetWeightedAverage(buffer, None, None, average_clock).avg = None
               THEN skip
               ELSE LET at == GetWeightedAverage(buffer, Some(row.timestamp),
                                                 Some(decay_minutes * 2),
                                                 average_clock)
                    IN  IF at.avg = None \/ at.weight < Scale \div 10 THEN skip
                        ELSE LET adjustment ==
                                   ComputeAdjustment(row.predicted_occupancy,
                                                     at.avg[1], at.weight,
                                                     row.confidence)
                             IN  [row |-> ApplyAdjustment(row, adjustment),
                                  adjustment |-> Some(adjustment)]

\* one row of adjust when the clock does not move during the call
AdjustRow(row, bufs, clock) == AdjustRowAt(row, bufs, clock, clock)

\* RealtimeAdjuster.adjust on a table (a sequence of rows) read at time clock
Adjust(predictions, bufs, clock) ==
  [i \in 1..Len(predictions) |-> AdjustRow(predictions[i], bufs, clock)]

\* RealtimeAdjuster.adjust_single after the fresh reports have been ingested
AdjustSingle(prediction, bufs, clock) ==
  LET skip == [row |-> prediction, adjustment |-> None]
  IN  IF prediction.lot_id \notin DOMAIN bufs THEN skip
      ELSE LET buffer == bufs[prediction.lot_id]
           IN  IF TooFewReports(buffer, clock) THEN skip
               ELSE LET at == GetWeightedAverage(buffer, Some(prediction.timestamp),
                                                 None, clock)
                    IN  IF at.avg = None \/ at.weight < Scale \div 10 THEN skip
                        ELSE LET adjustment ==
                                   ComputeAdjustment(prediction.predicted_occupancy,
                                                     at.avg[1], at.weight,
                                                     prediction.confidence)
                             IN  [row |-> ApplyAdjustment(prediction, adjustment),
                                  adjustment |-> Some(adjustment)]

----------------------------------------------------------------------------
(* PredictionService: cache keys *)

\* ord() of the characters that occur in lot ids and ISO timestamps
Ord(ch) ==
  CASE ch = "-" -> 45  [] ch = "0" -> 48  [] ch = "1" -> 49  [] ch = "2" -> 50
    [] ch = "3" -> 51  [] ch = "4" -> 52  [] ch = "5" -> 53  [] ch = "6" -> 54
    [] ch = "7" -> 55  [] ch = "8" -> 56  [] ch = "9" -> 57  [] ch = ":" -> 58
    [] ch = "A" -> 65  [] ch = "B" -> 66  [] ch = "T" -> 84  [] ch = "_" -> 95

\* Python's str < str: lexicographic by code point, a proper prefix is smaller
RECURSIVE StrLess(_, _)
StrLess(a, b) ==
  IF b = <<>> THEN FALSE
  ELSE IF a = <<>> THEN TRUE
  ELSE IF a[1] # b[1] THEN Ord(a[1]) < Ord(b[1])
  ELSE StrLess(Tail(a), Tail(b))

\* x put into the sorted list of strings at its place
RECURSIVE Insert(_, _)
Insert(x, sorted) ==
  IF sorted = <<>> THEN <<x>>
  ELSE IF StrLess(sorted[1], x) THEN <<sorted[1]>> \o Insert(x, Tail(sorted))
  ELSE <<x>> \o sorted

\* sorted(lot_ids)
RECURSIVE Sorted(_)
Sorted(list) ==
  IF list = <<>> THEN <<>> ELSE Insert(list[1], Sorted(Tail(list)))

\* sep.join(list)
RECURSIVE Join(_, _)
Join(sep, list) ==
  IF list = <<>> THEN <<>>
  ELSE IF Len(list) = 1 THEN list[1]
  ELSE list[1] \o sep \o Join(sep, Tail(list))

Digit(n) == <<"0", "1", "2", "3", "4", "5", "6", "7", "8", "9">>[n + 1]
TwoDigits(n) == <<Digit(n \div 10), Digit(n % 10)>>

\* datetime.isoformat() of minute t of 2024-01-01: "2024-01-01THH:MM:00"
IsoFormat(t) ==
  <<"2", "0", "2", "4", "-", "0", "1", "-", "0", "1", "T">>
    \o TwoDigits(t \div 60) \o <<":">> \o TwoDigits(t % 60) \o <<":", "0", "0">>

\* _get_cache_key with the ids joined in the order given, not sorted
GetCacheKeyUnsorted(lot_ids, start_time, end_time) ==
  Join(<<"_">>, lot_ids) \o <<"_">> \o IsoFormat(start_time) \o <<"_">>
    \o IsoFormat(end_time)

\* PredictionService._get_cache_key
GetCacheKey(lot_ids, start_time, end_time) ==
  LET lots_key == Join(<<"_">>, Sorted(lot_ids))
      time_key == IsoFormat(start_time) \o <<"_">> \o IsoFormat(end_time)
  IN  lots_key \o <<"_">> \o time_key

\* Python's "sub in text" for strings
Contains(text, sub) ==
  \E i \in 0..(Len(text) - Len(sub)) : SubSeq(text, i + 1, i + Len(sub)) = sub

\* the test of _invalidate_lot_cache written as key.startswith(lot_id)
KeyStartsWithLot(key, lot_id) ==
  Len(lot_id) <= Len(key) /\ SubSeq(key, 1, Len(lot_id)) = lot_id

\* the test of _invalidate_lot_cache: lot_id in key
KeyMatchesLot(key, lot_id) == Contains(key, lot_id)

\* PredictionService._invalidate_lot_cache
InvalidateLotCache(entries, lot_id) ==
  [key \in {k \in DOMAIN entries : ~KeyMatchesLot(k, lot_id)} |-> entries[key]]

\* the freshness test of predict_batch with the TTL taken as seconds
IsFreshTtlInSeconds(cache_age) == cache_age < cache_ttl_minutes * 60

\* cache_age < self.config.cache_ttl_minutes
IsFresh(cache_age) == cache_age < cache_ttl_minutes

----------------------------------------------------------------------------
(* PredictionService: the prediction pipeline *)

\* default interval_minutes of predict_batch
interval_minutes == 15

\* pd.date_range(start_time, end_time, freq="15T")
RECURSIVE DateRange(_, _)
DateRange(start_time, end_time) ==
  IF start_time > end_time THEN <<>>
  ELSE <<start_time>> \o DateRange(start_time + interval_minutes, end_time)

\* the records of predict_batch: for lot_id in lot_ids: for ts in timestamps
RECURSIVE Records(_, _)
Records(lot_ids, timestamps) ==
  IF lot_ids = <<>> THEN <<>>
  ELSE [i \in 1..Len(timestamps) |-> [lot_id |-> lot_ids[1], timestamp |-> timestamps[i]]]
         \o Records(Tail(lot_ids), timestamps)

\* self.model.predict / predict_single: the loaded forecaster, a fixed function
\* of the record's features
ModelPredict(lot_id, timestamp) ==
  IF lot_id = <<"A">>
  THEN [predicted_occupancy |-> 50 * Scale, confidence |-> 0,
        lower_bound |-> 49 * Scale, upper_bound |-> 60 * Scale]
  ELSE [predicted_occupancy |-> 0, confidence |-> 0,
        lower_bound |-> 0, upper_bound |-> 10 * Scale]

\* predict_batch from the timestamp grid to the forecaster's table with its
\* lot_id and timestamp columns (the calibrator is not fitted: no calibration)
ForecastTable(lot_ids, start_time, end_time) ==
  LET records == Records(lot_ids, DateRange(start_time, end_time))
  IN  [i \in 1..Len(records) |->
         LET f == ModelPredict(records[i].lot_id, records[i].timestamp)
         IN  [predicted_occupancy |-> f.predicted_occupancy,
              confidence |-> f.confidence,
              lower_bound |-> f.lower_bound, upper_bound |-> f.upper_bound,
              lot_id |-> records[i].lot_id, timestamp |-> records[i].timestamp]]

\* the rows of the adjusted table
Rows(adjusted) == [i \in 1..Len(adjusted) |-> adjusted[i].row]

\* predict_batch after the cache lookup missed, up to the reordered table
ComputePredictions(lot_ids, start_time, end_time, adjuster, bufs, clock) ==
  LET predictions == ForecastTable(lot_ids, start_time, end_time)
  IN  IF adjuster THEN Rows(Adjust(predictions, bufs, clock)) ELSE predictions

----------------------------------------------------------------------------
(* Model artifacts: what the forecasters save and what _load_model loads *)

\* Path("models/latest"), the default of _load_model, and another directory
DefaultPath == "models/latest"
Paths == {DefaultPath, "models/m1"}

\* metadata.json: the keys it holds and the value under "model_name", if any
\* (a string, as a tuple of characters)
Metadata(keys, model_name) == [keys |-> keys, model_name |-> model_name]

\* a directory: its files, its subdirectories and its metadata.json parsed
\* (None when the file is missing); saved_by is history, the save that wrote
\* it last
Directory(files, dirs, metadata, saved_by) ==
  [files |-> files, dirs |-> dirs, metadata |-> metadata, saved_by |-> saved_by]

\* what LightGBMModel.save writes
LgbSaved ==
  Directory({"model_q0.10.txt", "model_q0.50.txt", "model_q0.90.txt", "metadata.json"},
            {},
            Some(Metadata({"config", "feature_columns", "model_version", "quantiles"},
                          None)),
            "lightgbm")

\* what TemporalFusionTransformerModel.save writes
TftSaved ==
  Directory({"model.pt", "metadata.json"}, {},
            Some(Metadata({"config", "scaler_params", "model_version"}, None)),
            "tft")

\* what EnsembleModel.save writes for a stacking ensemble
EnsSaved ==
  Directory({"meta_learner.joblib", "meta_learner_lower.joblib",
             "meta_learner_upper.joblib", "metadata.json"},
            {"tft", "lgb"},
            Some(Metadata({"config", "model_version"}, None)),
            "ensemble")

Kinds == {"ensemble", "lightgbm", "tft"}

Saved(kind) ==
  CASE kind = "ensemble" -> EnsSaved
    [] kind = "tft"      -> TftSaved
    [] OTHER             -> LgbSaved

\* save into a path: path.mkdir(parents=True, exist_ok=True), then the files
\* are written over whatever the directory holds
SaveOver(old, new) ==
  IF old = None THEN Some(new)
  ELSE Some(Directory(old[1].files \cup new.files, old[1].dirs \cup new.dirs,
                      new.metadata, new.saved_by))

\* str.lower() of one character of a model name
LowerChar(ch) ==
  CASE ch = "E" -> "e" [] ch = "T" -> "t" [] ch = "F" -> "f"
    [] ch = "L" -> "l" [] ch = "G" -> "g" [] ch = "B" -> "b" [] ch = "M" -> "m"
    [] OTHER -> ch

\* metadata.get("model_name", "").lower()
ModelName(metadata) ==
  LET name == IF metadata.model_name = None THEN <<>> ELSE metadata.model_name[1]
  IN  [i \in 1..Len(name) |-> LowerChar(name[i])]

\* _load_model, lines 95-112: the forecaster class chosen for a directory
SelectKind(dir) ==
  IF dir.metadata # None
  THEN LET model_name == ModelName(dir.metadata[1])
       IN  IF Contains(model_name, <<"e", "n", "s", "e", "m", "b", "l", "e">>)
              \/ "lgb" \in dir.dirs
           THEN "ensemble"
           ELSE IF Contains(model_name, <<"t", "f", "t">>)
                   \/ Contains(model_name,
                               <<"t", "r", "a", "n", "s", "f", "o", "r", "m", "e", "r">>)
           THEN "tft"
           ELSE "lightgbm"
  ELSE "lightgbm"

\* the keys of metadata.json each load reads, and the files it opens
RequiredKeys(kind) ==
  CASE kind = "ensemble" -> {"config", "model_version"}
    [] kind = "tft"      -> {"config", "scaler_params", "model_version"}
    [] OTHER             -> {"config", "feature_columns", "model_version", "quantiles"}

\* the class whose to_dict() the "config" entry of metadata.json holds
ConfigOf(dir) == IF dir.saved_by \in Kinds THEN dir.saved_by ELSE "tft"

\* the forecaster's load(path): None when it returns, else the error raised;
\* from_dict(metadata["config"]) passes the entries as keyword arguments to the
\* configuration class of the forecaster chosen
LoadError(kind, dir) ==
  IF dir.metadata = None THEN Some("FileNotFoundError")
  ELSE IF ConfigOf(dir) # kind THEN Some("TypeError")
  ELSE IF ~(RequiredKeys(kind) \subseteq dir.metadata[1].keys) THEN Some("KeyError")
  ELSE IF kind = "ensemble" /\ ~({"tft", "lgb"} \subseteq dir.dirs)
  THEN Some("FileNotFoundError")
  ELSE IF kind = "tft" /\ "model.pt" \notin dir.files THEN Some("FileNotFoundError")
  ELSE None

\* a forecaster object of a kind, loaded from a path
Loaded(kind, path) == [kind |-> kind, loaded_from |-> path]

\* PredictionService._load_model: the error raised (None when it returns), the
\* forecaster returned and self.model_path afterwards
LoadModel(mp, d) ==
  LET path == IF mp = None THEN DefaultPath ELSE mp[1]
      failed(error) == [raised |-> Some(error), model |-> None,
                        model_path |-> Some(path), attempted |-> TRUE]
  IN  IF d[path] = None THEN failed("FileNotFoundError")
      ELSE LET kind == SelectKind(d[path][1])
               error == LoadError(kind, d[path][1])
           IN  IF error # None THEN failed(error[1])
               ELSE [raised |-> None, model |-> Some(Loaded(kind, path)),
                     model_path |-> Some(path), attempted |-> TRUE]

\* the model property with the forecaster object kept even when loading it
\* failed
ModelAccessKeepsUnloaded(m, mp, d) ==
  IF m # None
  THEN [raised |-> None, model |-> m, model_path |-> mp, attempted |-> FALSE]
  ELSE LET r == LoadModel(mp, d)
       IN  IF r.raised = None THEN r
           ELSE [r EXCEPT !.model = Some(Loaded("lightgbm", r.model_path[1]))]

\* PredictionService.model (the property): self._model is loaded on first use
\* and is assigned only when _load_model returned
ModelAccess(m, mp, d) ==
  IF m # None
  THEN [raised |-> None, model |-> m, model_path |-> mp, attempted |-> FALSE]
  ELSE LoadModel(mp, d)

\* a service whose forecaster was loaded from the default path
InitArtifacts ==
  /\ disk = [p \in Paths |-> IF p = DefaultPath THEN Some(LgbSaved) ELSE None]
  /\ model = Some(Loaded("lightgbm", DefaultPath))
  /\ model_path = Some(DefaultPath)

----------------------------------------------------------------------------
(* Initial values shared by every specification *)

\* lot ids are strings, modelled as tuples of characters
LotA == <<"A">>
LotA1 == <<"A", "1">>
LotIds == {LotA, LotA1}

\* a float that is either NaN or the number v
NaN == [nan |-> TRUE, v |-> 0]
Float(v) == [nan |-> FALSE, v |-> v]

\* a base forecaster object before fit: not fitted, trained on nothing
NewModel == [is_fitted |-> FALSE, trained_on |-> {}]

\* EnsembleConfig.tft_weight and lgb_weight: 0.5 each
tft_weight == Scale \div 2
lgb_weight == Scale \div 2

\* EnsembleModel.__init__ with EnsembleConfig(strategy, n_folds)
NewEnsemble(strategy, n_folds) ==
  [strategy |-> strategy, n_folds |-> n_folds,
   tft_weight |-> tft_weight, lgb_weight |-> lgb_weight,
   meta_learner |-> None, meta_learner_lower |-> None, meta_learner_upper |-> None,
   tft_model |-> NewModel, lgb_model |-> NewModel, is_fitted |-> FALSE]

\* Calibrator.__init__: not fitted, no calibration model yet
NewCalibrator == [is_fitted |-> FALSE, isotonic |-> None]

\* EnsembleModel() with the default EnsembleConfig: stacking over 5 folds
InitEnsemble == ensemble = NewEnsemble("stacking", 5)

InitClock == now = 0
InitBuffer == own_reports = <<>> /\ added = <<>>
\* RealtimeAdjuster.__init__: an empty defaultdict
InitAdjuster == buffers = <<>> /\ out = [op |-> "none"]
\* PredictionService.__init__ with its default arguments and InferenceConfig()
InitService(callers) ==
  /\ InitArtifacts
  /\ cache = <<>>
  /\ calibrator = Some(NewCalibrator)
  /\ enable_realtime_adjustment = TRUE
  /\ cache_predictions = TRUE
  /\ pc = [c \in callers |-> "idle"]
  /\ frame = [c \in callers |-> <<>>]
  /\ ret = [c \in callers |-> [op |-> "none"]]
  /\ version = 0
  /\ returned = [l \in LotIds |-> 0]

serviceVars == <<cache, calibrator, enable_realtime_adjustment, ensemble, cache_predictions, pc, frame,
                 ret, version, returned, artifactVars>>

\* the amounts by which the clock is seen to advance between two calls
TickSteps == {30}

\* time passes between calls
Tick(d) ==
  /\ now + d <= MaxClock
  /\ now' = now + d
  /\ out' = [op |-> "none"]
  /\ UNCHANGED <<own_reports, added, buffers, serviceVars>>

----------------------------------------------------------------------------
(* SpecBuffer: one ReportBuffer used on its own *)

BufReports ==
  { Report(0, 20 * Scale, Scale),      Report(0, 80 * Scale, Scale \div 2),
    Report(60, 80 * Scale, Scale),     Report(60, 20 * Scale, Scale \div 2),
    Report(0, 80 * Scale, 0) }
BufReferenceTimes == {None, Some(0), Some(30), Some(90)}
BufWindows == {None, Some(0), Some(30), Some(60)}

BufAdd(r) ==
  /\ Len(added) < MaxAdds
  /\ own_reports' = BufferAdd(own_reports, r)
  /\ added' = Append(added, r)
  /\ out' = [op |-> "add"]
  /\ UNCHANGED <<now, buffers, serviceVars>>

BufGetWeightedAverage(reference_time, window_minutes) ==
  /\ out' = [op |-> "get_weighted_average",
             reference_time |-> reference_time,
             window_minutes |-> window_minutes,
             clock |-> now,
             result |-> GetWeightedAverage(own_reports, reference_time,
                                           window_minutes, now)]
  /\ UNCHANGED <<now, own_reports, added, buffers, serviceVars>>

BufGetReportCount(window_minutes) ==
  /\ out' = [op |-> "get_report_count",
             window_minutes |-> window_minutes,
             clock |-> now,
             result |-> GetReportCount(own_reports, window_minutes, now)]
  /\ UNCHANGED <<now, own_reports, added, buffers, serviceVars>>

InitBuf ==
  InitClock /\ InitBuffer /\ InitAdjuster /\ InitEnsemble /\ InitService({"c1"})

NextBuf ==
  \/ \E d \in TickSteps : Tick(d)
  \/ \E r \in BufReports : BufAdd(r)
  \/ \E rt \in BufReferenceTimes, w \in BufWindows : BufGetWeightedAverage(rt, w)
  \/ \E w \in {30, 60} : BufGetReportCount(w)

SpecBuffer == InitBuf /\ [][NextBuf]_vars

----------------------------------------------------------------------------
(* SpecAdjuster: one RealtimeAdjuster, its calls made one after the other *)

\* a report dictionary as update_reports receives it
ReportDict(timestamp, reported_status, confidence) ==
  [timestamp |-> timestamp, reported_status |-> reported_status,
   confidence |-> confidence]

\* {"reported_status": "PACKED"}: stamped with the clock, confidence 1.0
DictPackedNow == ReportDict(None, Some(<<"str", "PACKED">>), None)
\* {"timestamp": t0, "reported_status": 0.0, "confidence": 0.5}
DictZeroAtStart == ReportDict(Some(0), Some(<<"num", 0>>), Some(Scale \div 2))

\* {"reported_status": "PACKED", "confidence": 0.05}: stamped with the clock
DictFaintNow == ReportDict(None, Some(<<"str", "PACKED">>), Some(Scale \div 20))
\* {"timestamp": t0 + 60 min, "reported_status": "PACKED"}: confidence 1.0
DictPackedAtSixty == ReportDict(Some(60), Some(<<"str", "PACKED">>), None)

\* the report lists each lot is updated with
ReportLists(lot_id) ==
  IF lot_id = LotA THEN {<<DictPackedNow>>, <<DictZeroAtStart>>, <<>>}
  ELSE {<<DictPackedNow>>, <<DictFaintNow>>, <<DictPackedAtSixty>>}

\* forecaster outputs, each with 0 <= lower <= point <= upper <= 100
Forecast(point, confidence, lower, upper) ==
  [predicted_occupancy |-> point * Scale, confidence |-> confidence,
   lower_bound |-> lower * Scale, upper_bound |-> upper * Scale]

Forecasts ==
  { Forecast(50, 0, 49, 60), Forecast(0, 0, 0, 10), Forecast(50, Scale, 40, 60) }

PredictionTimes == {0, 60, 75}

\* a row of a predictions table / a PredictionOutput
Prediction(f, lot_id, timestamp) ==
  [predicted_occupancy |-> f.predicted_occupancy, confidence |-> f.confidence,
   lower_bound |-> f.lower_bound, upper_bound |-> f.upper_bound,
   lot_id |-> lot_id, timestamp |-> timestamp]

Predictions ==
  { Prediction(f, l, t) : f \in Forecasts, l \in LotIds, t \in PredictionTimes }

\* the tables handed to adjust: one row, or one row for each of the two lots
Tables ==
  { <<p>> : p \in Predictions }
    \cup { <<Prediction(f, LotA, t), Prediction(Forecast(0, 0, 0, 10), LotA1, t)>> :
             f \in Forecasts, t \in PredictionTimes }

\* the caller takes the result of the last call
AdjDone ==
  /\ out.op # "none"
  /\ out' = [op |-> "none"]
  /\ UNCHANGED <<now, own_reports, added, buffers, serviceVars>>

AdjTick(d) == out.op = "none" /\ Tick(d)

AdjUpdateReports(lot_id, dicts) ==
  /\ out.op = "none"
  /\ buffers' = UpdateReports(buffers, lot_id, dicts, now)
  /\ UNCHANGED <<now, own_reports, added, out, serviceVars>>

\* adjust with "adjusted = predictions" in place of predictions.copy(): the
\* writes of the loop reach the caller's table
AdjustCallInPlace(predictions, bufs, clock) ==
  LET adjusted == Adjust(predictions, bufs, clock)
  IN  [result |-> adjusted, input_after |-> Rows(adjusted)]

\* a call of adjust: what it returns and the caller's table afterwards; the
\* loop writes into adjusted = predictions.copy()
AdjustCall(predictions, bufs, clock) ==
  [result |-> Adjust(predictions, bufs, clock), input_after |-> predictions]

\* a call of adjust_single: what it returns and the caller's PredictionOutput
\* afterwards; the result is the argument itself or a new PredictionOutput
AdjustSingleCall(prediction, bufs, clock) ==
  [result |-> <<AdjustSingle(prediction, bufs, clock)>>,
   input_after |-> <<prediction>>]

AdjAdjust(predictions) ==
  /\ out.op = "none"
  /\ LET call == AdjustCall(predictions, buffers, now)
     IN  out' = [op |-> "adjust", input |-> predictions, clock |-> now,
                 result |-> call.result, input_after |-> call.input_after,
                 buffers_before |-> buffers]
  /\ UNCHANGED <<now, own_reports, added, buffers, serviceVars>>

\* adjust_single: fresh reports, when given and not empty, are ingested first
AdjAdjustSingle(prediction, recent_reports) ==
  /\ out.op = "none"
  /\ LET bufs == IF recent_reports # None /\ recent_reports[1] # <<>>
                 THEN UpdateReports(buffers, prediction.lot_id, recent_reports[1], now)
                 ELSE buffers
         call == AdjustSingleCall(prediction, bufs, now)
     IN  /\ buffers' = bufs
         /\ out' = [op |-> "adjust_single", input |-> <<prediction>>, clock |-> now,
                    recent_reports |-> recent_reports,
                    result |-> call.result, input_after |-> call.input_after,
                    buffers_before |-> buffers]
  /\ UNCHANGED <<now, own_reports, added, serviceVars>>

InitAdj ==
  InitClock /\ InitBuffer /\ InitAdjuster /\ InitEnsemble /\ InitService({"c1"})

NextAdj ==
  \/ \E d \in TickSteps : AdjTick(d)
  \/ \E l \in LotIds : \E dicts \in ReportLists(l) : AdjUpdateReports(l, dicts)
  \/ \E t \in Tables : AdjAdjust(t)
  \/ \E p \in Predictions, rr \in {None, Some(<<DictPackedNow>>), Some(<<>>)} :
       AdjAdjustSingle(p, rr)
  \/ AdjDone

SpecAdjuster == InitAdj /\ [][NextAdj]_vars

----------------------------------------------------------------------------
(* PredictionService: its calls, step by step.                             *)
(* predict_batch is the cache lookup, the computation from the report      *)
(* buffers and the cache store; update_realtime_reports is the ingestion   *)
(* and the invalidation.  Spec has one caller, so its calls follow one     *)
(* another; SpecConc has two callers whose steps interleave.               *)

\* how many update_realtime_reports calls are made
MaxUpdates == 2

\* the instants at which the service is called
SvcInstants == {0, 4, 5}

\* {"timestamp": t0 + 5 min, "reported_status": "Empty"}: confidence 1.0
DictEmptyAtFive == ReportDict(Some(5), Some(<<"str", "Empty">>), None)

SvcReportLists == {<<DictEmptyAtFive, DictEmptyAtFive>>}
SvcLotLists == {<<LotA1>>, <<LotA, LotA1>>, <<LotA1, LotA>>}
\* (start_time, end_time) of the predict_batch calls
SvcRanges == {<<60, 60>>}

\* the dict d with d[k] = v
Put(d, k, v) == [x \in DOMAIN d \cup {k} |-> IF x = k THEN v ELSE d[x]]

\* the lot ids in the lot_id column of a table
EntitySet(table) == {table[i].lot_id : i \in 1..Len(table)}

\* time passes
SvcTick(t) ==
  /\ t > now
  /\ now' = t
  /\ UNCHANGED <<own_reports, added, buffers, out, serviceVars>>

\* predict_batch, lines 148-155: a fresh entry is found and returned
PredictBatchHit(c, lot_ids, start_time, end_time) ==
  LET cache_key == GetCacheKey(lot_ids, start_time, end_time)
  IN  /\ pc[c] = "idle"
      /\ cache_predictions
      /\ cache_key \in DOMAIN cache
      /\ IsFresh(now - cache[cache_key].time)
      /\ ret' = [ret EXCEPT ![c] =
                   [op |-> "predict_batch", key |-> cache_key, hit |-> TRUE,
                    time |-> now, found |-> Some(now - cache[cache_key].time),
                    table |-> cache[cache_key].table, ver |-> cache[cache_key].ver,
                    range |-> <<start_time, end_time>>, seen |-> returned,
                    stored_at |-> None]]
      /\ UNCHANGED <<now, own_reports, added, buffers, out, cache,
                     calibrator, enable_realtime_adjustment, ensemble, cache_predictions, artifactVars, pc, frame,
                     version, returned>>

\* predict_batch, lines 148-155: no entry, or an expired one
PredictBatchMiss(c, lot_ids, start_time, end_time) ==
  LET cache_key == GetCacheKey(lot_ids, start_time, end_time)
      present == cache_predictions /\ cache_key \in DOMAIN cache
  IN  /\ pc[c] = "idle"
      /\ ~(present /\ IsFresh(now - cache[cache_key].time))
      /\ pc' = [pc EXCEPT ![c] = "compute"]
      /\ frame' = [frame EXCEPT ![c] =
                     [lot_ids |-> lot_ids, start_time |-> start_time,
                      end_time |-> end_time, cache_key |-> cache_key,
                      time |-> now, seen |-> returned,
                      found |-> IF present THEN Some(now - cache[cache_key].time)
                                ELSE None]]
      /\ UNCHANGED <<now, own_reports, added, buffers, out, cache,
                     calibrator, enable_realtime_adjustment, ensemble, cache_predictions, artifactVars, ret, version,
                     returned>>

\* predict_batch, lines 157-210: features, forecaster, adjustment
PredictBatchCompute(c) ==
  /\ pc[c] = "compute"
  /\ pc' = [pc EXCEPT ![c] = "store"]
  /\ frame' = [frame EXCEPT ![c] =
                 [lot_ids |-> @.lot_ids, start_time |-> @.start_time,
                  end_time |-> @.end_time, cache_key |-> @.cache_key,
                  time |-> @.time, seen |-> @.seen, found |-> @.found,
                  predictions |-> ComputePredictions(@.lot_ids, @.start_time,
                                    @.end_time, enable_realtime_adjustment,
                                    buffers, now),
                  ver |-> version]]
  /\ UNCHANGED <<now, own_reports, added, buffers, out, cache,
                 calibrator, enable_realtime_adjustment, ensemble, cache_predictions, artifactVars, ret, version,
                 returned>>

\* predict_batch, lines 212-216: the store and the return
PredictBatchStore(c) ==
  /\ pc[c] = "store"
  /\ LET f == frame[c]
     IN  /\ cache' = IF cache_predictions
                     THEN Put(cache, f.cache_key,
                              [time |-> now, table |-> f.predictions, ver |-> f.ver])
                     ELSE cache
         /\ ret' = [ret EXCEPT ![c] =
                      [op |-> "predict_batch", key |-> f.cache_key, hit |-> FALSE,
                       time |-> f.time, found |-> f.found,
                       table |-> f.predictions, ver |-> f.ver,
                       range |-> <<f.start_time, f.end_time>>, seen |-> f.seen,
                       stored_at |-> Some(now)]]
  /\ pc' = [pc EXCEPT ![c] = "idle"]
  /\ frame' = [frame EXCEPT ![c] = <<>>]
  /\ UNCHANGED <<now, own_reports, added, buffers, out,
                 calibrator, enable_realtime_adjustment, ensemble, cache_predictions, artifactVars, version, returned>>

\* update_realtime_reports, lines 338-339: the reports reach the buffer
UpdateIngest(c, lot_id, dicts) ==
  /\ pc[c] = "idle"
  /\ version < MaxUpdates
  /\ enable_realtime_adjustment
  /\ buffers' = UpdateReports(buffers, lot_id, dicts, now)
  /\ version' = version + 1
  /\ pc' = [pc EXCEPT ![c] = "invalidate"]
  /\ frame' = [frame EXCEPT ![c] = [lot_id |-> lot_id, ver |-> version + 1]]
  /\ UNCHANGED <<now, own_reports, added, out, cache, ret,
                 calibrator, enable_realtime_adjustment, ensemble, cache_predictions, artifactVars, returned>>

\* update_realtime_reports, lines 340-341: the invalidation and the return
UpdateInvalidate(c) ==
  /\ pc[c] = "invalidate"
  /\ cache' = InvalidateLotCache(cache, frame[c].lot_id)
  /\ returned' = [returned EXCEPT ![frame[c].lot_id] = Max(@, frame[c].ver)]
  /\ ret' = [ret EXCEPT ![c] =
               [op |-> "update_realtime_reports", lot_id |-> frame[c].lot_id,
                removed |-> {EntitySet(cache[k].table) :
                               k \in DOMAIN cache \ DOMAIN cache'}]]
  /\ pc' = [pc EXCEPT ![c] = "idle"]
  /\ frame' = [frame EXCEPT ![c] = <<>>]
  /\ UNCHANGED <<now, own_reports, added, buffers, out,
                 calibrator, enable_realtime_adjustment, ensemble, cache_predictions, artifactVars, version>>

\* PredictionService.clear_cache
ClearCache(c) ==
  /\ pc[c] = "idle"
  /\ cache # <<>>
  /\ cache' = <<>>
  /\ ret' = [ret EXCEPT ![c] = [op |-> "clear_cache"]]
  /\ UNCHANGED <<now, own_reports, added, buffers, out,
                 calibrator, enable_realtime_adjustment, ensemble, cache_predictions, artifactVars, pc, frame,
                 version, returned>>

SvcNext ==
  \/ \E t \in SvcInstants : SvcTick(t)
  \/ \E c \in DOMAIN pc :
       \/ \E ids \in SvcLotLists, r \in SvcRanges : PredictBatchHit(c, ids, r[1], r[2])
       \/ \E ids \in SvcLotLists, r \in SvcRanges : PredictBatchMiss(c, ids, r[1], r[2])
       \/ PredictBatchCompute(c)
       \/ PredictBatchStore(c)
       \/ \E l \in LotIds, dicts \in SvcReportLists : UpdateIngest(c, l, dicts)
       \/ UpdateInvalidate(c)
       \/ ClearCache(c)

\* one caller: every call returns before the next is made
\* one caller
InitSvc ==
  InitClock /\ InitBuffer /\ InitAdjuster /\ InitEnsemble /\ InitService({"c1"})

Spec == InitSvc /\ [][SvcNext]_vars

ConcLotLists == {<<LotA1>>, <<LotA, LotA1>>}
ConcReportLists == {<<DictPackedNow, DictPackedNow>>}

\* the calls two threads make on the service at one instant
ConcNext ==
  \E c \in DOMAIN pc :
    \/ \E ids \in ConcLotLists, r \in SvcRanges : PredictBatchHit(c, ids, r[1], r[2])
    \/ \E ids \in ConcLotLists, r \in SvcRanges : PredictBatchMiss(c, ids, r[1], r[2])
    \/ PredictBatchCompute(c)
    \/ PredictBatchStore(c)
    \/ \E l \in LotIds, dicts \in ConcReportLists : UpdateIngest(c, l, dicts)
    \/ UpdateInvalidate(c)

\* two callers (threads) whose calls overlap
\* two threads sharing the service
InitConc ==
  InitClock /\ InitBuffer /\ InitAdjuster /\ InitEnsemble /\ InitService({"c1", "c2"})

SpecConc == InitConc /\ [][ConcNext]_vars

----------------------------------------------------------------------------
(* Claims about PredictionService, under Spec and SpecConc *)

\* caller c's update_realtime_reports call returns in this step
UpdateReturns(c) == pc[c] = "invalidate" /\ pc'[c] = "idle"

\* C2: update_realtime_reports(e, reports) removes only cache entries whose
\* entity set contains e: every entry whose entity set does not contain e is
\* still present and unchanged after the call.
C2_InvalidatesOnlyEntity ==
  [][\A c \in DOMAIN pc :
       UpdateReturns(c) =>
         \A k \in DOMAIN cache :
           frame[c].lot_id \notin EntitySet(cache[k].table)
             => (k \in DOMAIN cache' /\ cache'[k] = cache[k])]_vars

\* the result caller c last got from predict_batch was computed after every
\* update of its lots that had returned when the call began
NoStaleResult(c) ==
  ret[c].op = "predict_batch" =>
    \A e \in EntitySet(ret[c].table) : ret[c].ver >= ret[c].seen[e]

\* C3: when update_realtime_reports(e, reports) returns, the cache holds no
\* entry whose entity set contains e, so the next predict_batch for an entity
\* set containing e recomputes from the updated report buffers instead of
\* returning a result cached before the update.
C3_UpdateInvalidatesEntity ==
  \A c \in DOMAIN pc :
    /\ ret[c].op = "update_realtime_reports" =>
         \A k \in DOMAIN cache : ret[c].lot_id \notin EntitySet(cache[k].table)
    /\ NoStaleResult(c)

\* an update has returned after removing an entry whose entity set holds its lot
C3_Witness ==
  \E c \in DOMAIN pc :
    /\ ret[c].op = "update_realtime_reports"
    /\ \E lots \in ret[c].removed : ret[c].lot_id \in lots /\ Cardinality(lots) = 2

\* C4: under any interleaving of predict_batch (lookup, compute, store) with a
\* concurrent update_realtime_reports(e, ...), no predict_batch that starts
\* after the update has returned returns a result for e computed from the
\* report buffers as they were before that update.
C4_NoStaleResultAfterUpdate == \A c \in DOMAIN pc : NoStaleResult(c)

\* caller c's predict_batch call returns in this step
PredictBatchReturns(c) ==
  /\ ret'[c].op = "predict_batch"
  /\ \/ pc[c] = "store" /\ pc'[c] = "idle"
     \/ pc[c] = "idle" /\ pc'[c] = "idle" /\ ret'[c] # ret[c]

\* caller c's call returning in this step follows, with nothing but time in
\* between, a predict_batch call for the same entity set and time range made
\* less than cache_ttl_minutes earlier
RepeatsWithinTtl(c) ==
  /\ PredictBatchReturns(c)
  /\ ret[c].op = "predict_batch"
  /\ EntitySet(ret[c].table) = EntitySet(ret'[c].table)
  /\ ret[c].range = ret'[c].range
  /\ ret'[c].time - ret[c].time < cache_ttl_minutes

\* C5 as stated: two predict_batch calls with the same entity set and time
\* range, within cache_ttl_minutes of each other, with no report update or
\* clear_cache between them, return identical results.
C5_RepeatedCallIdentical ==
  [][\A c \in DOMAIN pc :
       RepeatsWithinTtl(c) => ret'[c].table = ret[c].table]_vars

\* C5 as amended: when the first of the two calls computed and stored its
\* result, the second returns the table the first stored.
C5_RepeatedCallReturnsStored ==
  [][\A c \in DOMAIN pc :
       (RepeatsWithinTtl(c) /\ ~ret[c].hit) =>
         (ret'[c].hit /\ ret'[c].table = ret[c].table)]_vars

\* a call for two lots has been answered from an entry stored 4 minutes earlier
C5_Witness ==
  \E c \in DOMAIN pc :
    /\ ret[c].op = "predict_batch"
    /\ ret[c].hit
    /\ ret[c].found = Some(4)
    /\ Cardinality(EntitySet(ret[c].table)) = 2

\* C6: predict_batch never returns a cache entry whose age is at least
\* cache_ttl_minutes: on an expired or missing entry it recomputes and stores
\* the new result under the same key with the current time as creation time.
C6_NoExpiredEntryReturned ==
  \A c \in DOMAIN pc :
    ret[c].op = "predict_batch" =>
      /\ ret[c].hit => (ret[c].found # None /\ ret[c].found[1] < cache_ttl_minutes)
      /\ (ret[c].found = None \/ ret[c].found[1] >= cache_ttl_minutes)
           => ~ret[c].hit
      /\ ~ret[c].hit =>
           /\ ret[c].key \in DOMAIN cache
           /\ cache[ret[c].key].table = ret[c].table
           /\ Some(cache[ret[c].key].time) = ret[c].stored_at

\* an entry aged exactly cache_ttl_minutes was found, and replaced by a
\* recomputed one created at the time of the store
C6_Witness ==
  \E c \in DOMAIN pc :
    /\ ret[c].op = "predict_batch"
    /\ ~ret[c].hit
    /\ ret[c].found = Some(cache_ttl_minutes)
    /\ cache[ret[c].key].time = now

----------------------------------------------------------------------------
(* Claims about RealtimeAdjuster, under SpecAdjuster *)

\* out holds the result of an adjust or adjust_single call
Adjusted == out.op \in {"adjust", "adjust_single"}

\* 0 <= lower_bound <= predicted_occupancy <= upper_bound <= 100
IntervalOk(p) ==
  /\ 0 <= p.lower_bound
  /\ p.lower_bound <= p.predicted_occupancy
  /\ p.predicted_occupancy <= p.upper_bound
  /\ p.upper_bound <= 100 * Scale

\* C1: every prediction returned by adjust and adjust_single satisfies
\* 0 <= lower_bound <= predicted_value <= upper_bound <= 100 whenever the
\* forecaster's output it was given satisfies it, for every reachable buffer.
C1_AdjustedIntervalOk ==
  Adjusted =>
    \A i \in 1..Len(out.input) :
      IntervalOk(out.input[i]) => IntervalOk(out.result[i].row)

C8_AdjustmentBounded ==
  Adjusted =>
    \A i \in 1..Len(out.input) :
      LET moved == out.result[i].row.predicted_occupancy
                     - out.input[i].predicted_occupancy
          adj == out.result[i].adjustment
      IN  /\ moved <= max_adjustment * Scale
          /\ -moved <= max_adjustment * Scale
          /\ adj # None => /\ adj[1] <= max_adjustment * Scale
                           /\ -adj[1] <= max_adjustment * Scale

\* an adjustment whose unclipped value, 30 points, exceeds max_adjustment has
\* been applied, and the point estimate has moved by exactly max_adjustment
C8_Witness ==
  /\ Adjusted
  /\ \E i \in 1..Len(out.input) :
       /\ out.result[i].adjustment = Some(max_adjustment * Scale)
       /\ out.result[i].row.predicted_occupancy
            - out.input[i].predicted_occupancy = max_adjustment * Scale

----------------------------------------------------------------------------
(* Claims about ReportBuffer, under SpecBuffer *)

\* C9: after any sequence of ReportBuffer.add calls the buffer holds at most
\* max_size reports, and they are exactly the most recently added
\* min(n, max_size) of the n reports added, in insertion order.
C9_BufferKeepsNewest ==
  LET n == Len(added)
      k == Min(n, max_size)
  IN  /\ Len(own_reports) <= max_size
      /\ own_reports = SubSeq(added, n - k + 1, n)

\* an add has overflowed the buffer and evicted a report that differs from
\* the ones kept
C9_Witness ==
  /\ Len(added) > max_size
  /\ Len(own_reports) = max_size
  /\ \A i \in 1..Len(own_reports) : own_reports[i] # added[1]

\* the sum of f[i] over the finite set S
RECURSIVE SumOver(_, _)
SumOver(S, f) ==
  IF S = {} THEN 0
  ELSE LET i == CHOOSE x \in S : TRUE
       IN  f[i] + SumOver(S \ {i}, f)

\* the reports a call with an explicit window is said to use:
\* those with 0 <= age <= window relative to the reference time
C10_Qualifying ==
  LET ref == IF out.reference_time = None THEN out.clock ELSE out.reference_time[1]
  IN  { i \in 1..Len(own_reports) :
          /\ ref - own_reports[i].ts >= 0
          /\ ref - own_reports[i].ts <= out.window_minutes[1] }

\* C10: get_weighted_average(reference_time, window) uses exactly the
\* buffered reports with 0 <= age <= window: it returns (None, 0) when none
\* qualifies, and otherwise the weight-normalised mean of the qualifying
\* values together with the sum of the qualifying weights.
C10_WeightedAverageUsesWindow ==
  (out.op = "get_weighted_average" /\ out.window_minutes # None) =>
    LET ref == IF out.reference_time = None THEN out.clock ELSE out.reference_time[1]
        Q == C10_Qualifying
        w == [i \in Q |->
                Div(ExpDecay(ref - own_reports[i].ts) * own_reports[i].confidence,
                    Scale)]
        wv == [i \in Q |-> w[i] * own_reports[i].value]
        W == SumOver(Q, w)
    IN  /\ (Q = {}) => out.result = [avg |-> None, weight |-> 0]
        /\ (Q # {} /\ W > 0) =>
              out.result = [avg |-> Some(Div(SumOver(Q, wv), W)), weight |-> W]

\* the same statement for the calls whose window is not 0
C10_WeightedAverageUsesPositiveWindow ==
  (out.op = "get_weighted_average" /\ out.window_minutes # None
     /\ out.window_minutes # Some(0)) => C10_WeightedAverageUsesWindow

----------------------------------------------------------------------------
(* SpecPass: one adjust(predictions) call, clock reading by clock reading.  *)
(* For each lot of the table, in order of first appearance, adjust calls    *)
(* get_report_count, which reads datetime.now(), then get_weighted_average  *)
(* with no reference time, which reads datetime.now() again; the clock can  *)
(* advance between any two readings.                                        *)

\* predictions["lot_id"].unique(): the lots in order of first appearance
RECURSIVE UniqueLots(_)
UniqueLots(predictions) ==
  IF predictions = <<>> THEN <<>>
  ELSE LET before == UniqueLots(SubSeq(predictions, 1, Len(predictions) - 1))
           lot == predictions[Len(predictions)].lot_id
       IN  IF \E i \in 1..Len(before) : before[i] = lot THEN before
           ELSE Append(before, lot)

\* the tables of the pass: one row for each of the two lots
PassTables ==
  { <<Prediction(Forecast(50, 0, 49, 60), LotA, 60),
      Prediction(Forecast(0, 0, 0, 10), LotA1, 60)>> }

\* the clock step between two readings
PassTickSteps == {30, 60}

PassTick(d) ==
  /\ now + d <= MaxClock
  /\ now' = now + d
  /\ UNCHANGED <<own_reports, added, buffers, out, serviceVars>>

PassUpdateReports(lot_id, dicts) ==
  /\ pc["c1"] = "idle"
  /\ out.op = "none"
  /\ buffers' = UpdateReports(buffers, lot_id, dicts, now)
  /\ UNCHANGED <<now, own_reports, added, out, serviceVars>>

\* adjust is entered: adjusted = predictions.copy(), the loop over lots begins
PassBegin(predictions) ==
  /\ pc["c1"] = "idle"
  /\ out.op = "none"
  /\ pc' = [pc EXCEPT !["c1"] = "count"]
  /\ frame' = [frame EXCEPT !["c1"] =
                 [predictions |-> predictions, todo |-> UniqueLots(predictions),
                  reads |-> <<>>,
                  count_clock |-> [l \in LotIds |-> 0],
                  average_clock |-> [l \in LotIds |-> 0]]]
  /\ UNCHANGED <<now, own_reports, added, buffers, out, cache,
                 calibrator, enable_realtime_adjustment, ensemble, cache_predictions, artifactVars, ret, version,
                 returned>>

\* the next lot: buffer lookup and get_report_count(window_minutes=60)
PassCount ==
  /\ pc["c1"] = "count"
  /\ frame["c1"].todo # <<>>
  /\ LET f == frame["c1"]
         lot_id == Head(f.todo)
     IN  IF lot_id \notin DOMAIN buffers
         THEN /\ frame' = [frame EXCEPT !["c1"].todo = Tail(f.todo)]
              /\ pc' = pc
         ELSE /\ frame' = [frame EXCEPT
                             !["c1"].reads = Append(f.reads, now),
                             !["c1"].count_clock[lot_id] = now,
                             !["c1"].average_clock[lot_id] = now,
                             !["c1"].todo = IF TooFewReports(buffers[lot_id], now)
                                            THEN Tail(f.todo) ELSE f.todo]
              /\ pc' = [pc EXCEPT !["c1"] =
                          IF TooFewReports(buffers[lot_id], now)
                          THEN "count" ELSE "average"]
  /\ UNCHANGED <<now, own_reports, added, buffers, out, cache,
                 calibrator, enable_realtime_adjustment, ensemble, cache_predictions, artifactVars, ret, version,
                 returned>>

\* the same lot: get_weighted_average() with the clock as reference time, then
\* the lot's rows, each with its own timestamp as reference time
PassAverage ==
  /\ pc["c1"] = "average"
  /\ LET f == frame["c1"]
         lot_id == Head(f.todo)
     IN  frame' = [frame EXCEPT
                     !["c1"].reads = Append(f.reads, now),
                     !["c1"].average_clock[lot_id] = now,
                     !["c1"].todo = Tail(f.todo)]
  /\ pc' = [pc EXCEPT !["c1"] = "count"]
  /\ UNCHANGED <<now, own_reports, added, buffers, out, cache,
                 calibrator, enable_realtime_adjustment, ensemble, cache_predictions, artifactVars, ret, version,
                 returned>>

\* return adjusted
PassReturn ==
  /\ pc["c1"] = "count"
  /\ frame["c1"].todo = <<>>
  /\ LET f == frame["c1"]
     IN  out' = [op |-> "adjust", input |-> f.predictions, reads |-> f.reads,
                 result |-> [i \in 1..Len(f.predictions) |->
                               AdjustRowAt(f.predictions[i], buffers,
                                           f.count_clock[f.predictions[i].lot_id],
                                           f.average_clock[f.predictions[i].lot_id])]]
  /\ pc' = [pc EXCEPT !["c1"] = "idle"]
  /\ frame' = [frame EXCEPT !["c1"] = <<>>]
  /\ UNCHANGED <<now, own_reports, added, buffers, cache,
                 calibrator, enable_realtime_adjustment, ensemble, cache_predictions, artifactVars, ret, version,
                 returned>>

InitPass ==
  InitClock /\ InitBuffer /\ InitAdjuster /\ InitEnsemble /\ InitService({"c1"})

NextPass ==
  \/ \E d \in PassTickSteps : PassTick(d)
  \/ \E l \in LotIds : \E dicts \in {<<DictPackedNow, DictPackedNow>>} :
       PassUpdateReports(l, dicts)
  \/ \E t \in PassTables : PassBegin(t)
  \/ PassCount
  \/ PassAverage
  \/ PassReturn
  \/ AdjDone

SpecPass == InitPass /\ [][NextPass]_vars

----------------------------------------------------------------------------
(* Base forecasters: predict from the raw quantiles of the underlying model *)

\* BaseModel._clip_predictions: np.clip(predictions, 0.0, 100.0)
ClipPredictions(x) == Clip(x, 0, 100 * Scale)

\* confidence = np.clip(1.0 - interval_width / 100.0, 0, 1)
WidthConfidence(q_low, q_high) ==
  Clip(Scale - Div((q_high - q_low) * Scale, 100 * Scale), 0, Scale)

\* LightGBMModel.predict with the monotonicity lines 287-288 left out
LgbPredictNoMonotonicity(raw) ==
  LET q_low == ClipPredictions(raw.low)
      q_mid == ClipPredictions(raw.mid)
      q_high == ClipPredictions(raw.high)
  IN  [predicted_occupancy |-> q_mid, confidence |-> WidthConfidence(q_low, q_high),
       lower_bound |-> q_low, upper_bound |-> q_high]

\* LightGBMModel.predict on one row whose quantile models give raw
LgbPredict(raw) ==
  LET q_mid == ClipPredictions(raw.mid)
      q_low == Min(ClipPredictions(raw.low), q_mid)
      q_high == Max(ClipPredictions(raw.high), q_mid)
  IN  [predicted_occupancy |-> q_mid, confidence |-> WidthConfidence(q_low, q_high),
       lower_bound |-> q_low, upper_bound |-> q_high]

\* TemporalFusionTransformerModel.predict on one row whose network gives raw
TftPredict(raw) ==
  LET q_low == ClipPredictions(raw.low)
      q_mid == ClipPredictions(raw.mid)
      q_high == ClipPredictions(raw.high)
  IN  [predicted_occupancy |-> q_mid, confidence |-> WidthConfidence(q_low, q_high),
       lower_bound |-> q_low, upper_bound |-> q_high]

\* the raw quantiles (10th, 50th, 90th percentile) of an underlying model
Raw(low, mid, high) == [low |-> low * Scale, mid |-> mid * Scale, high |-> high * Scale]

----------------------------------------------------------------------------
(* EnsembleModel *)


\* how many training samples fit is called with
NSamples == 3

\* X: the training samples, by index
Samples == 1..NSamples

\* the six out-of-fold arrays of _get_stacking_features
Arrays == {"tft_oof", "lgb_oof", "tft_lower", "tft_upper", "lgb_lower", "lgb_upper"}

\* model.fit(X_train, y_train) on a model object: it is trained on those rows
Fit(forecaster, train_idx) == [is_fitted |-> TRUE, trained_on |-> train_idx]

\* KFold(n_splits, shuffle=True).split: the shuffled indices perm are cut into
\* n_splits consecutive slices, the first n % n_splits of them one longer;
\* the result is the sequence of validation index sets
KFoldSplit(n, n_splits, perm) ==
  LET size(f) == (n \div n_splits) + (IF f <= n % n_splits THEN 1 ELSE 0)
      start(f) == (f - 1) * (n \div n_splits) + Min(f - 1, n % n_splits)
  IN  [f \in 1..n_splits |-> {perm[j] : j \in (start(f) + 1)..(start(f) + size(f))}]

\* train_idx of a fold with the validation rows left in
TrainIdxWithValidation(X, val_idx) == X

\* train_idx of a fold: the rows that are not in val_idx
TrainIdx(X, val_idx) == X \ val_idx

\* what the network / the quantile models of a fold model give for sample i
TftRaw(i) == Raw(55 + i, 60 + i, 70 + i)
LgbRaw(i) == Raw(30 + i, 40 + i, 50 + i)

\* array[val_idx] = values
Assign(array, val_idx, values) ==
  [i \in DOMAIN array |-> IF i \in val_idx THEN values[i] ELSE array[i]]

\* np.where(np.isnan(a), b, a)
WhereNan(a, b) == [i \in DOMAIN a |-> IF a[i].nan THEN b[i] ELSE a[i]]

\* lines 185-189: the NaN entries of the TFT arrays are taken from LightGBM's
SubstituteNan(oof) ==
  IF \E i \in DOMAIN oof.tft_oof : oof.tft_oof[i].nan
  THEN [oof EXCEPT !.tft_oof = WhereNan(oof.tft_oof, oof.lgb_oof),
                   !.tft_lower = WhereNan(oof.tft_lower, oof.lgb_lower),
                   !.tft_upper = WhereNan(oof.tft_upper, oof.lgb_upper)]
  ELSE oof

\* np.column_stack([a, b])
ColumnStack(a, b) == [i \in DOMAIN a |-> <<a[i], b[i]>>]

\* the weights a Ridge fit can arrive at: coefficients and intercept
RidgeWeights(c1, c2, intercept) == [coef |-> <<c1, c2>>, intercept |-> intercept]

\* Ridge(alpha).fit(features, targets): the learner remembers what it was
\* fitted on; its weights are a function of that data, here the given ones
RidgeFit(features, weights) ==
  [fitted_on |-> features, coef |-> weights.coef, intercept |-> weights.intercept]

\* Ridge.predict on one row <<a, b>>
RidgePredict(learner, a, b) ==
  Div(learner.coef[1] * a + learner.coef[2] * b, Scale) + learner.intercept

\* the rows fit retrains a base forecaster on, taken from the last fold
LastFoldTrainingSet(X, folds) ==
  IF folds = <<>> THEN X ELSE TrainIdx(X, folds[Len(folds)])

\* the rows fit retrains a base forecaster on: self._tft_model.fit(X, y)
FullTrainingSet(X, folds) == X

\* EnsembleModel.predict with the two lines "Ensure monotonicity" left out
CombineNoMonotonicity(predictions, lower_bounds, upper_bounds) ==
  [predicted_occupancy |-> ClipPredictions(predictions),
   lower_bound |-> ClipPredictions(lower_bounds),
   upper_bound |-> ClipPredictions(upper_bounds)]

\* EnsembleModel.predict, lines 345-352: clip, then widen the interval to
\* contain the point
Combine(predictions, lower_bounds, upper_bounds) ==
  LET p == ClipPredictions(predictions)
  IN  [predicted_occupancy |-> p,
       lower_bound |-> Min(ClipPredictions(lower_bounds), p),
       upper_bound |-> Max(ClipPredictions(upper_bounds), p)]

\* predict, lines 309-311: the weights before normalisation and their total
TotalWeight(ens, tft_available) ==
  (IF tft_available THEN ens.tft_weight ELSE 0)
    + (IF tft_available THEN ens.lgb_weight ELSE Scale)

\* the weighted average with the division by total_w left out
UnnormalizedWeights(ens, tft_available) ==
  [tft_w |-> IF tft_available THEN ens.tft_weight ELSE 0,
   lgb_w |-> IF tft_available THEN ens.lgb_weight ELSE Scale]

\* predict, lines 313-316: tft_w /= total_w; lgb_w /= total_w
NormalizedWeights(ens, tft_available) ==
  LET total_w == TotalWeight(ens, tft_available)
  IN  [tft_w |-> Div((IF tft_available THEN ens.tft_weight ELSE 0) * Scale, total_w),
       lgb_w |-> Div((IF tft_available THEN ens.lgb_weight ELSE Scale) * Scale, total_w)]

\* EnsembleModel.predict, lines 287-343: the point estimate and the bounds as
\* the strategy combines them, before they are clipped
Combination(ens, tft_preds, lgb_preds, tft_available) ==
  IF ens.strategy = "stacking" /\ ens.meta_learner # None
  THEN [predictions |-> RidgePredict(ens.meta_learner[1],
                                     tft_preds.predicted_occupancy,
                                     lgb_preds.predicted_occupancy),
        lower_bounds |-> RidgePredict(ens.meta_learner_lower[1],
                                      tft_preds.lower_bound, lgb_preds.lower_bound),
        upper_bounds |-> RidgePredict(ens.meta_learner_upper[1],
                                      tft_preds.upper_bound, lgb_preds.upper_bound)]
  ELSE IF ens.strategy = "weighted_avg"
  THEN LET tft_w == NormalizedWeights(ens, tft_available).tft_w
           lgb_w == NormalizedWeights(ens, tft_available).lgb_w
       IN  [predictions |-> Div(tft_w * tft_preds.predicted_occupancy
                                  + lgb_w * lgb_preds.predicted_occupancy, Scale),
            lower_bounds |-> Div(tft_w * tft_preds.lower_bound
                                   + lgb_w * lgb_preds.lower_bound, Scale),
            upper_bounds |-> Div(tft_w * tft_preds.upper_bound
                                   + lgb_w * lgb_preds.upper_bound, Scale)]
  ELSE [predictions |-> Div(tft_preds.predicted_occupancy
                              + lgb_preds.predicted_occupancy, 2),
        lower_bounds |-> Div(tft_preds.lower_bound + lgb_preds.lower_bound, 2),
        upper_bounds |-> Div(tft_preds.upper_bound + lgb_preds.upper_bound, 2)]

\* predict raises: the ensemble is not fitted, or the weighted average divides
\* by a zero total weight
PredictRaises(ens, tft_available) ==
  \/ ~ens.is_fitted
  \/ /\ ~(ens.strategy = "stacking" /\ ens.meta_learner # None)
     /\ ens.strategy = "weighted_avg"
     /\ TotalWeight(ens, tft_available) = 0

\* EnsembleModel.predict on one row, after the base forecasters were called
EnsemblePredictRow(ens, tft_preds, lgb_preds, tft_available) ==
  LET c == Combination(ens, tft_preds, lgb_preds, tft_available)
      combined == Combine(c.predictions, c.lower_bounds, c.upper_bounds)
  IN  [predicted_occupancy |-> combined.predicted_occupancy,
       confidence |-> Min(tft_preds.confidence, lgb_preds.confidence),
       lower_bound |-> combined.lower_bound, upper_bound |-> combined.upper_bound]

----------------------------------------------------------------------------
(* SpecStacking: EnsembleModel.fit step by step, then predict *)

\* the strategy and n_folds the ensemble is configured with
EnsembleConfigs ==
  {<<"stacking", 2>>, <<"stacking", 3>>, <<"weighted_avg", 5>>, <<"dynamic", 5>>,
   <<"median", 5>>}

\* the weights the three Ridge fits of a stacking fit arrive at:
\* point, lower and upper learner
MetaWeights ==
  { <<RidgeWeights(Scale \div 2, Scale \div 2, 0),
      RidgeWeights(Scale \div 2, Scale \div 2, 0),
      RidgeWeights(Scale \div 2, Scale \div 2, 0)>>,
    <<RidgeWeights(Scale, 0, 0),
      RidgeWeights(2 * Scale, 0 - Scale, 10 * Scale),
      RidgeWeights(0, Scale \div 2, 0)>> }

\* the state of a fit call when it is entered
FitFrame(X, folds) ==
  [X |-> X, folds |-> folds, fold |-> 1, failed |-> {},
   oof |-> [a \in Arrays |-> [i \in X |-> Float(0)]],
   writer |-> [a \in Arrays |-> [i \in X |-> None]],
   meta_features |-> <<>>, meta_lower |-> <<>>, meta_upper |-> <<>>]

\* fit is entered; with the stacking strategy _get_stacking_features splits X
EnsFitBegin(perm) ==
  /\ pc["c1"] = "idle"
  /\ out.op = "none"
  /\ ~ensemble.is_fitted
  /\ IF ensemble.strategy = "stacking"
     THEN /\ pc' = [pc EXCEPT !["c1"] = "fold_tft"]
          /\ frame' = [frame EXCEPT !["c1"] =
                         FitFrame(Samples, KFoldSplit(NSamples, ensemble.n_folds, perm))]
     ELSE /\ pc' = [pc EXCEPT !["c1"] = "retrain_tft"]
          /\ frame' = [frame EXCEPT !["c1"] = FitFrame(Samples, <<>>)]
  /\ UNCHANGED <<now, own_reports, added, buffers, out, cache,
                 calibrator, enable_realtime_adjustment, ensemble, cache_predictions, artifactVars, ret,
                 version, returned>>

\* lines 162-175: a new TFT model is fitted on the fold's training rows and
\* predicts its validation rows, or fails
EnsFoldTft(ok) ==
  /\ pc["c1"] = "fold_tft"
  /\ LET f == frame["c1"]
         val_idx == f.folds[f.fold]
         tft_fold == Fit(NewModel, TrainIdx(f.X, val_idx))
         tft_preds == [i \in f.X |-> TftPredict(TftRaw(i))]
     IN  frame' = [frame EXCEPT !["c1"] =
           IF ok
           THEN [f EXCEPT
                   !.oof.tft_oof = Assign(@, val_idx,
                       [i \in f.X |-> Float(tft_preds[i].predicted_occupancy)]),
                   !.oof.tft_lower = Assign(@, val_idx,
                       [i \in f.X |-> Float(tft_preds[i].lower_bound)]),
                   !.oof.tft_upper = Assign(@, val_idx,
                       [i \in f.X |-> Float(tft_preds[i].upper_bound)]),
                   !.writer.tft_oof = Assign(@, val_idx, [i \in f.X |-> Some(tft_fold)]),
                   !.writer.tft_lower = Assign(@, val_idx, [i \in f.X |-> Some(tft_fold)]),
                   !.writer.tft_upper = Assign(@, val_idx, [i \in f.X |-> Some(tft_fold)])]
           ELSE [f EXCEPT
                   !.oof.tft_oof = Assign(@, val_idx, [i \in f.X |-> NaN]),
                   !.failed = @ \cup {f.fold}]]
  /\ pc' = [pc EXCEPT !["c1"] = "fold_lgb"]
  /\ UNCHANGED <<now, own_reports, added, buffers, out, cache,
                 calibrator, enable_realtime_adjustment, ensemble, cache_predictions, artifactVars, ret,
                 version, returned>>

\* lines 177-183: a new LightGBM model is fitted on the fold's training rows
\* and predicts its validation rows; the next fold follows
EnsFoldLgb ==
  /\ pc["c1"] = "fold_lgb"
  /\ LET f == frame["c1"]
         val_idx == f.folds[f.fold]
         lgb_fold == Fit(NewModel, TrainIdx(f.X, val_idx))
         lgb_preds == [i \in f.X |-> LgbPredict(LgbRaw(i))]
     IN  /\ frame' = [frame EXCEPT !["c1"] =
               [f EXCEPT
                  !.oof.lgb_oof = Assign(@, val_idx,
                      [i \in f.X |-> Float(lgb_preds[i].predicted_occupancy)]),
                  !.oof.lgb_lower = Assign(@, val_idx,
                      [i \in f.X |-> Float(lgb_preds[i].lower_bound)]),
                  !.oof.lgb_upper = Assign(@, val_idx,
                      [i \in f.X |-> Float(lgb_preds[i].upper_bound)]),
                  !.writer.lgb_oof = Assign(@, val_idx, [i \in f.X |-> Some(lgb_fold)]),
                  !.writer.lgb_lower = Assign(@, val_idx, [i \in f.X |-> Some(lgb_fold)]),
                  !.writer.lgb_upper = Assign(@, val_idx, [i \in f.X |-> Some(lgb_fold)]),
                  !.fold = @ + 1]]
         /\ pc' = [pc EXCEPT !["c1"] =
                     IF f.fold = Len(f.folds) THEN "meta" ELSE "fold_tft"]
  /\ UNCHANGED <<now, own_reports, added, buffers, out, cache,
                 calibrator, enable_realtime_adjustment, ensemble, cache_predictions, artifactVars, ret,
                 version, returned>>

\* a fit of a LightGBM model raises (in a fold, line 179, or on the full data,
\* line 252): nothing catches it and fit is left with the exception
EnsLgbFitRaises ==
  /\ pc["c1"] \in {"fold_lgb", "retrain_lgb"}
  /\ out' = [op |-> "fit", raised |-> TRUE, at |-> pc["c1"]]
  /\ pc' = [pc EXCEPT !["c1"] = "idle"]
  /\ frame' = [frame EXCEPT !["c1"] = <<>>]
  /\ UNCHANGED <<now, own_reports, added, buffers, cache,
                 calibrator, enable_realtime_adjustment, ensemble, cache_predictions, artifactVars, ret,
                 version, returned>>

\* lines 185-196 and 226-237: the NaN entries are substituted, the
\* meta-features stacked and the three meta-learners fitted on them
EnsFitMeta(weights) ==
  /\ pc["c1"] = "meta"
  /\ LET f == frame["c1"]
         oof == SubstituteNan(f.oof)
         meta_features == ColumnStack(oof.tft_oof, oof.lgb_oof)
         meta_lower == ColumnStack(oof.tft_lower, oof.lgb_lower)
         meta_upper == ColumnStack(oof.tft_upper, oof.lgb_upper)
     IN  /\ frame' = [frame EXCEPT !["c1"] =
                        [f EXCEPT !.meta_features = meta_features,
                                  !.meta_lower = meta_lower,
                                  !.meta_upper = meta_upper]]
         /\ ensemble' = [ensemble EXCEPT
                           !.meta_learner = Some(RidgeFit(meta_features, weights[1])),
                           !.meta_learner_lower = Some(RidgeFit(meta_lower, weights[2])),
                           !.meta_learner_upper = Some(RidgeFit(meta_upper, weights[3]))]
  /\ pc' = [pc EXCEPT !["c1"] = "retrain_tft"]
  /\ UNCHANGED <<now, own_reports, added, buffers, out, cache,
                 calibrator, enable_realtime_adjustment, cache_predictions, artifactVars, ret,
                 version, returned>>

\* lines 244-249: self._tft_model is fitted on the full data; a failure is
\* caught and logged
EnsRetrainTft(ok) ==
  /\ pc["c1"] = "retrain_tft"
  /\ ensemble' = IF ok
                 THEN [ensemble EXCEPT !.tft_model =
                         Fit(@, FullTrainingSet(frame["c1"].X, frame["c1"].folds))]
                 ELSE ensemble
  /\ pc' = [pc EXCEPT !["c1"] = "retrain_lgb"]
  /\ UNCHANGED <<now, own_reports, added, buffers, out, cache,
                 calibrator, enable_realtime_adjustment, cache_predictions, artifactVars, frame, ret,
                 version, returned>>

\* lines 251-256: self._lgb_model is fitted on the full data, the ensemble is
\* marked fitted and fit returns
EnsRetrainLgb ==
  /\ pc["c1"] = "retrain_lgb"
  /\ ensemble' = [ensemble EXCEPT
                    !.lgb_model = Fit(@, FullTrainingSet(frame["c1"].X,
                                                         frame["c1"].folds)),
                    !.is_fitted = TRUE]
  /\ out' = [op |-> "fit", raised |-> FALSE, at |-> "retrain_lgb"]
  /\ pc' = [pc EXCEPT !["c1"] = "idle"]
  /\ frame' = [frame EXCEPT !["c1"] = <<>>]
  /\ UNCHANGED <<now, own_reports, added, buffers, cache,
                 calibrator, enable_realtime_adjustment, cache_predictions, artifactVars, ret,
                 version, returned>>

\* EnsembleModel.predict on one row: raw_tft and raw_lgb are what the
\* underlying models give for it, tft_raises whether the TFT call raises
EnsPredict(raw_tft, raw_lgb, tft_raises) ==
  /\ pc["c1"] = "idle"
  /\ out.op = "none"
  /\ IF PredictRaises(ensemble, ensemble.tft_model.is_fitted /\ ~tft_raises)
     THEN out' = [op |-> "predict", raised |-> TRUE]
     ELSE LET lgb_preds == LgbPredict(raw_lgb)
              tft_available == ensemble.tft_model.is_fitted /\ ~tft_raises
              tft_preds == IF tft_available THEN TftPredict(raw_tft) ELSE lgb_preds
          IN  out' = [op |-> "predict", raised |-> FALSE,
                      tft_preds |-> tft_preds, lgb_preds |-> lgb_preds,
                      tft_available |-> tft_available,
                      used |-> [lgb |-> ensemble.lgb_model,
                                tft |-> IF tft_available THEN ensemble.tft_model
                                        ELSE ensemble.lgb_model],
                      result |-> EnsemblePredictRow(ensemble, tft_preds, lgb_preds,
                                                    tft_available)]
  /\ UNCHANGED <<now, own_reports, added, buffers, cache,
                 calibrator, enable_realtime_adjustment, ensemble, cache_predictions, artifactVars, pc,
                 frame, ret, version, returned>>

\* the rows predict is called with after a fit
StackingRaws == {Raw(55, 60, 70), Raw(70, 60, 55)}

InitStacking ==
  /\ InitClock /\ InitBuffer /\ InitAdjuster /\ InitService({"c1"})
  /\ \E c \in EnsembleConfigs : ensemble = NewEnsemble(c[1], c[2])

NextStacking ==
  \/ \E perm \in Permutations(Samples) : EnsFitBegin(perm)
  \/ \E ok \in BOOLEAN : EnsFoldTft(ok)
  \/ EnsFoldLgb
  \/ EnsLgbFitRaises
  \/ \E weights \in MetaWeights : EnsFitMeta(weights)
  \/ \E ok \in BOOLEAN : EnsRetrainTft(ok)
  \/ EnsRetrainLgb
  \/ \E raw_tft \in StackingRaws, tft_raises \in BOOLEAN :
       EnsPredict(raw_tft, Raw(30, 40, 50), tft_raises)
  \/ AdjDone

SpecStacking == InitStacking /\ [][NextStacking]_vars

----------------------------------------------------------------------------
(* SpecCombine: predict of a fitted ensemble and of the base forecasters,   *)
(* on every raw output of the underlying models                             *)

\* the values a raw quantile takes: below the range, inside it, above it
RawValues == {0 - 10, 30, 60, 120}

\* the raw quantile triples of an underlying model, crossed ones included
RawOutputs == {Raw(l, m, h) : l \in RawValues, m \in RawValues, h \in RawValues}

\* the (tft_weight, lgb_weight) pairs EnsembleConfig is given: the default,
\* 0.75 / 0.25, 0.2 / 0.3 and 0 / 0
WeightConfigs ==
  {<<tft_weight, lgb_weight>>, <<(3 * Scale) \div 4, Scale \div 4>>,
   <<Scale \div 5, (3 * Scale) \div 10>>, <<0, 0>>}

\* the out-of-fold arrays of a fit in which no fold model failed
OofOfFit ==
  [a \in Arrays |->
     [i \in Samples |->
        Float(CASE a = "tft_oof"   -> TftPredict(TftRaw(i)).predicted_occupancy
                [] a = "tft_lower" -> TftPredict(TftRaw(i)).lower_bound
                [] a = "tft_upper" -> TftPredict(TftRaw(i)).upper_bound
                [] a = "lgb_oof"   -> LgbPredict(LgbRaw(i)).predicted_occupancy
                [] a = "lgb_lower" -> LgbPredict(LgbRaw(i)).lower_bound
                [] a = "lgb_upper" -> LgbPredict(LgbRaw(i)).upper_bound)]]

\* the ensemble after fit(X, y) returned: tft_ok tells whether the full-data
\* fit of the TFT model succeeded
FittedEnsemble(strategy, weights, tft_ok) ==
  LET new == [NewEnsemble(strategy, 3) EXCEPT !.tft_weight = weights[4][1],
                                              !.lgb_weight = weights[4][2]]
      oof == SubstituteNan(OofOfFit)
      stacked ==
        IF strategy = "stacking"
        THEN [new EXCEPT
                !.meta_learner =
                   Some(RidgeFit(ColumnStack(oof.tft_oof, oof.lgb_oof), weights[1])),
                !.meta_learner_lower =
                   Some(RidgeFit(ColumnStack(oof.tft_lower, oof.lgb_lower), weights[2])),
                !.meta_learner_upper =
                   Some(RidgeFit(ColumnStack(oof.tft_upper, oof.lgb_upper), weights[3]))]
        ELSE new
  IN  [stacked EXCEPT
         !.tft_model = IF tft_ok THEN Fit(@, FullTrainingSet(Samples, <<>>)) ELSE @,
         !.lgb_model = Fit(@, FullTrainingSet(Samples, <<>>)),
         !.is_fitted = TRUE]

\* LightGBMModel.predict is called on a row
LgbPredictCall(raw) ==
  /\ out.op = "none"
  /\ out' = [op |-> "lgb_predict", raw |-> raw, result |-> LgbPredict(raw)]
  /\ UNCHANGED <<now, own_reports, added, buffers, serviceVars>>

\* TemporalFusionTransformerModel.predict is called on a row
TftPredictCall(raw) ==
  /\ out.op = "none"
  /\ out' = [op |-> "tft_predict", raw |-> raw, result |-> TftPredict(raw)]
  /\ UNCHANGED <<now, own_reports, added, buffers, serviceVars>>

InitCombine ==
  /\ InitClock /\ InitBuffer /\ InitAdjuster /\ InitService({"c1"})
  /\ \E strategy \in {"stacking", "weighted_avg", "dynamic"}, tft_ok \in BOOLEAN :
       \E meta \in (IF strategy = "stacking" THEN MetaWeights
                    ELSE {CHOOSE w \in MetaWeights : TRUE}) :
         \E config \in (IF strategy = "weighted_avg" THEN WeightConfigs
                        ELSE {<<tft_weight, lgb_weight>>}) :
           ensemble = FittedEnsemble(strategy, meta \o <<config>>, tft_ok)

NextCombine ==
  \/ \E raw_tft \in RawOutputs, raw_lgb \in RawOutputs, tft_raises \in BOOLEAN :
       EnsPredict(raw_tft, raw_lgb, tft_raises)
  \/ \E raw \in RawOutputs : LgbPredictCall(raw)
  \/ \E raw \in RawOutputs : TftPredictCall(raw)
  \/ AdjDone

SpecCombine == InitCombine /\ [][NextCombine]_vars

----------------------------------------------------------------------------
(* Further claims about ReportBuffer and RealtimeAdjuster *)

\* the buffer after add is called with the reports of the sequence in turn
RECURSIVE BufferAfter(_)
BufferAfter(seq) ==
  IF seq = <<>> THEN <<>>
  ELSE BufferAdd(BufferAfter(SubSeq(seq, 1, Len(seq) - 1)), seq[Len(seq)])

\* the sequence seq in the order given by the permutation p of its indices
Permuted(seq, p) == [i \in 1..Len(seq) |-> seq[p[i]]]

\* C11: for any set of reports ingested into one buffer, the result of
\* get_weighted_average at a given reference time is the same for every order
\* in which the reports were ingested.
C11_IngestionOrderIrrelevant ==
  out.op = "get_weighted_average" =>
    \A p \in Permutations(1..Len(added)) :
      GetWeightedAverage(BufferAfter(Permuted(added, p)), out.reference_time,
                         out.window_minutes, out.clock) = out.result

\* C11 for reports that all fit in the buffer: the order in which they were
\* ingested does not change the weighted average (in exact arithmetic)
C11_IngestionOrderIrrelevantBelowCapacity ==
  Len(added) <= max_size => C11_IngestionOrderIrrelevant

\* C12: within one adjust(predictions) pass the query time is captured once:
\* every clock-relative computation of the pass (report-count eligibility and
\* default-reference weighted average, for every entity of the batch) uses
\* the same reference time, even when the clock advances during the pass.
C12_QueryTimeCapturedOnce ==
  (out.op = "adjust" /\ "reads" \in DOMAIN out) =>
    \A i, j \in 1..Len(out.reads) : out.reads[i] = out.reads[j]

\* the table a pass returns is the one adjust gives at some single query time
C12_ResultOfOneQueryTime ==
  (out.op = "adjust" /\ "reads" \in DOMAIN out) =>
    \E t \in 0..MaxClock : out.result = Adjust(out.input, buffers, t)

----------------------------------------------------------------------------
(* Claims about EnsembleModel.fit, under SpecStacking *)

\* the folds of the running fit that are complete
CompletedFolds ==
  LET f == frame["c1"]
  IN  IF pc["c1"] = "fold_lgb" THEN 1..(f.fold - 1)
      ELSE IF pc["c1"] = "fold_tft" THEN 1..(f.fold - 1)
      ELSE 1..Len(f.folds)

\* C13: in k-fold stacking over n samples every sample index belongs to
\* exactly one validation fold, and each sample's out-of-fold point, lower and
\* upper prediction is written by a fresh model instance trained only on
\* indices outside that sample's fold.
C13_OutOfFoldNoLeakage ==
  pc["c1"] \in {"fold_tft", "fold_lgb", "meta"} =>
    LET f == frame["c1"]
    IN  /\ \A i \in f.X :
             Cardinality({g \in 1..Len(f.folds) : i \in f.folds[g]}) = 1
        /\ \A a \in Arrays, g \in 1..Len(f.folds) : \A i \in f.folds[g] :
             f.writer[a][i] # None =>
               /\ i \notin f.writer[a][i][1].trained_on
               /\ f.writer[a][i][1] = Fit(NewModel, f.X \ f.folds[g])
        /\ \A g \in CompletedFolds : \A i \in f.folds[g] :
             /\ \A a \in {"lgb_oof", "lgb_lower", "lgb_upper"} : f.writer[a][i] # None
             /\ g \notin f.failed =>
                  \A a \in {"tft_oof", "tft_lower", "tft_upper"} : f.writer[a][i] # None

\* three folds over the samples are complete, no forecaster failed, and the
\* entries of every sample are written
C13_Witness ==
  /\ pc["c1"] = "meta"
  /\ Len(frame["c1"].folds) = 3
  /\ frame["c1"].failed = {}
  /\ \A a \in Arrays, i \in Samples : frame["c1"].writer[a][i] # None

\* C14: when one base forecaster fails to train on a fold, every out-of-fold
\* entry of that fold for the failed forecaster (point estimate, lower bound
\* and upper bound) is replaced by the other forecaster's out-of-fold
\* prediction for the same samples before the meta-features are stacked.
C14_FailedFoldSubstituted ==
  (ensemble.strategy = "stacking" /\ pc["c1"] \in {"retrain_tft", "retrain_lgb"}) =>
    LET f == frame["c1"]
    IN  \A g \in f.failed : \A i \in f.folds[g] :
          /\ f.meta_features[i][1] = f.oof.lgb_oof[i]
          /\ f.meta_lower[i][1] = f.oof.lgb_lower[i]
          /\ f.meta_upper[i][1] = f.oof.lgb_upper[i]

\* C14 for the point estimate alone: the NaN entries are substituted
C14_FailedFoldPointSubstituted ==
  (ensemble.strategy = "stacking" /\ pc["c1"] \in {"retrain_tft", "retrain_lgb"}) =>
    LET f == frame["c1"]
    IN  \A g \in f.failed : \A i \in f.folds[g] :
          f.meta_features[i][1] = f.oof.lgb_oof[i]

\* C15: a training failure of either base forecaster (on any fold, or on the
\* full-data retrain) never surfaces to the caller of fit: fit completes and
\* marks the ensemble fitted.
C15_FitNeverRaises ==
  out.op = "fit" => (~out.raised /\ ensemble.is_fitted)

\* the three meta-learners of the ensemble
MetaLearners ==
  <<ensemble.meta_learner, ensemble.meta_learner_lower, ensemble.meta_learner_upper>>

\* the order of a stacking fit and the forecasters predict calls
C16_Order ==
  /\ (ensemble.strategy = "stacking" /\ pc["c1"] \in {"retrain_tft", "retrain_lgb"}) =>
       /\ \A i \in 1..3 : MetaLearners[i] # None
       /\ ensemble.meta_learner[1].fitted_on = frame["c1"].meta_features
       /\ ensemble.meta_learner_lower[1].fitted_on = frame["c1"].meta_lower
       /\ ensemble.meta_learner_upper[1].fitted_on = frame["c1"].meta_upper
  /\ (ensemble.strategy = "stacking" /\ ensemble.is_fitted) =>
       \A i \in 1..3 : MetaLearners[i] # None
  /\ (out.op = "predict" /\ ~out.raised) =>
       /\ out.used.lgb = Fit(NewModel, Samples)
       /\ out.used.tft = Fit(NewModel, Samples)

\* C16: in a stacking fit the three meta-learners are fitted on out-of-fold
\* features first, then each base forecaster is retrained on the full
\* training set; the retraining leaves the meta-learner weights unchanged,
\* and the base forecasters used at inference are the full-data ones, never a
\* fold-restricted copy.
C16_MetaFirstThenFullRetrain ==
  /\ []C16_Order
  /\ [][/\ pc["c1"] \in {"retrain_tft", "retrain_lgb"} =>
            MetaLearners' = MetaLearners
        /\ pc["c1"] \in {"fold_tft", "fold_lgb", "meta"} =>
            /\ ensemble.tft_model' = ensemble.tft_model
            /\ ensemble.lgb_model' = ensemble.lgb_model]_vars

\* after a stacking fit whose TFT retrain succeeded, predict has combined the
\* outputs of both full-data forecasters through the meta-learners
C16_Witness ==
  /\ out.op = "predict"
  /\ ~out.raised
  /\ ensemble.strategy = "stacking"
  /\ out.tft_available
  /\ ensemble.meta_learner # None

----------------------------------------------------------------------------
(* Claims about predict of the ensemble and the base forecasters, under     *)
(* SpecCombine                                                              *)

\* a returned row has 0 <= lower_bound <= predicted_value <= upper_bound <= 100
RowWithinRange(row) ==
  /\ 0 <= row.lower_bound
  /\ row.lower_bound <= row.predicted_occupancy
  /\ row.predicted_occupancy <= row.upper_bound
  /\ row.upper_bound <= 100 * Scale

\* C17: for every strategy (stacking, weighted_avg, plain average) and every
\* base-forecaster output, EnsembleModel.predict returns rows with
\* 0 <= lower_bound <= predicted_value <= upper_bound <= 100, where
\* lower_bound = min(clipped lower, clipped point) and
\* upper_bound = max(clipped upper, clipped point): the interval is only
\* widened to contain the point estimate.
C17_EnsembleIntervalContainsPoint ==
  (out.op = "predict" /\ ~out.raised) =>
    LET c == Combination(ensemble, out.tft_preds, out.lgb_preds, out.tft_available)
        point == ClipPredictions(c.predictions)
    IN  /\ RowWithinRange(out.result)
        /\ out.result.predicted_occupancy = point
        /\ out.result.lower_bound = Min(ClipPredictions(c.lower_bounds), point)
        /\ out.result.upper_bound = Max(ClipPredictions(c.upper_bounds), point)

\* a stacking predict whose clipped lower bound lay above the clipped point
\* estimate: the lower bound returned is the point estimate
C17_Witness ==
  /\ out.op = "predict"
  /\ ~out.raised
  /\ ensemble.strategy = "stacking"
  /\ LET c == Combination(ensemble, out.tft_preds, out.lgb_preds, out.tft_available)
     IN  /\ ClipPredictions(c.lower_bounds) > ClipPredictions(c.predictions)
         /\ out.result.lower_bound = out.result.predicted_occupancy

\* C18: every base forecaster's predict (LightGBM and Temporal Fusion
\* Transformer) returns values clipped to [0,100] with
\* lower_bound <= predicted_value <= upper_bound enforced before returning,
\* for any raw quantile outputs of the underlying model, crossed ones included.
C18_BaseForecasterIntervalOk ==
  out.op \in {"lgb_predict", "tft_predict"} => RowWithinRange(out.result)

\* C18 for LightGBMModel.predict alone
C18_LightGBMIntervalOk ==
  out.op = "lgb_predict" => RowWithinRange(out.result)


----------------------------------------------------------------------------
(* Calibrator *)

\* what a call gave back: the value it returned, or the fact that it raised
Returned(v) == [raised |-> FALSE, value |-> <<v>>]
Raised == [raised |-> TRUE, value |-> <<>>]

\* a fitted IsotonicRegression(y_min=0.0, y_max=1.0, out_of_bounds="clip"): a
\* nondecreasing map of the confidence into [0, 1], here the clip to [lo, hi]
Isotonic(lo, hi) == [lo |-> lo, hi |-> hi]
IsotonicPredict(iso, confidence) == Clip(confidence, iso.lo, iso.hi)

\* Calibrator.SUPPORTED_METHODS
SUPPORTED_METHODS == {"isotonic", "platt", "temperature"}

\* Calibrator(method): raises ValueError for a method that is not supported
CalibratorInit(method) ==
  IF method \notin SUPPORTED_METHODS THEN Raised
  ELSE Returned([method |-> method, is_fitted |-> FALSE, isotonic |-> None])

\* Calibrator.fit with method "isotonic": the regression is fitted and kept,
\* then the calibrator is marked fitted
CalibratorFit(cal, iso) == [cal EXCEPT !.isotonic = Some(iso), !.is_fitted = TRUE]

\* Calibrator._apply_calibration with method "isotonic"
ApplyCalibration(cal, confidence) == IsotonicPredict(cal.isotonic[1], confidence)

\* the PredictionOutput calibrate_single builds: only the confidence changes
CalibratedSingle(cal, prediction) ==
  [prediction EXCEPT !.confidence = ApplyCalibration(cal, prediction.confidence)]

\* calibrate_single without its is_fitted test: self._isotonic is None before
\* fit, and None.predict raises
CalibrateSingleNoFitTest(cal, prediction) ==
  IF cal.isotonic = None THEN Raised ELSE Returned(CalibratedSingle(cal, prediction))

\* Calibrator.calibrate_single
CalibrateSingle(cal, prediction) ==
  IF ~cal.is_fitted THEN Returned(prediction)
  ELSE Returned(CalibratedSingle(cal, prediction))

\* Calibrator.calibrate on a table: a copy with the confidence column replaced
Calibrate(cal, predictions) ==
  IF ~cal.is_fitted THEN Returned(predictions)
  ELSE Returned([i \in 1..Len(predictions) |-> CalibratedSingle(cal, predictions[i])])

----------------------------------------------------------------------------
(* PredictionService: forecaster, then calibration, then adjustment *)

\* Python's truth value of an Optional list: None and [] are falsy
Truthy(list) == list # None /\ list[1] # <<>>

\* self._calibrator is not None and self._calibrator.is_fitted
CalibratorApplies(cal) == cal # None /\ cal[1].is_fitted

\* predict_batch, lines 194-200, on the forecaster's table
ReconcileBatch(predictions, cal, adjuster, bufs, clock) ==
  LET calibrated == IF CalibratorApplies(cal)
                    THEN Calibrate(cal[1], predictions).value[1]
                    ELSE predictions
  IN  IF adjuster THEN Rows(Adjust(calibrated, bufs, clock)) ELSE calibrated

\* predict_single, lines 251-260: the forecaster's output, calibrated
SingleCalibrated(lot_id, timestamp, cal) ==
  LET prediction == Prediction(ModelPredict(lot_id, timestamp), lot_id, timestamp)
  IN  IF CalibratorApplies(cal)
      THEN CalibrateSingle(cal[1], prediction).value[1]
      ELSE prediction

\* the report buffers after predict_single: adjust_single is called, and adds
\* the reports, only when recent_reports is a non-empty list
BuffersAfterSingle(lot_id, recent_reports, adjuster, bufs, clock) ==
  IF adjuster /\ Truthy(recent_reports)
  THEN UpdateReports(bufs, lot_id, recent_reports[1], clock)
  ELSE bufs

\* predict_single, lines 251-269
PredictSingle(lot_id, timestamp, recent_reports, cal, adjuster, bufs, clock) ==
  LET prediction == SingleCalibrated(lot_id, timestamp, cal)
  IN  IF adjuster /\ Truthy(recent_reports)
      THEN AdjustSingle(prediction,
                        BuffersAfterSingle(lot_id, recent_reports, adjuster, bufs, clock),
                        clock).row
      ELSE prediction

----------------------------------------------------------------------------
(* SpecPipeline: one PredictionService built with either flag on or off,   *)
(* its calls made one after the other, and its Calibrator called directly  *)

\* the instants at which the service is called
PipeInstants == {0, 60, 64}

\* {"timestamp": t0, "reported_status": "PACKED"}
DictPackedAtStart == ReportDict(Some(0), Some(<<"str", "PACKED">>), None)

PipeReportLists == {<<DictPackedAtStart, DictPackedAtStart>>, <<DictPackedNow>>}
PipeRecentReports == {None, Some(<<>>), Some(<<DictPackedNow, DictPackedNow>>)}
PipeLotLists == {<<LotA>>, <<LotA, LotA1>>}
\* the timestamps predictions are asked for
PipeTimes == {60}

\* the regressions Calibrator.fit may arrive at
IsotonicFits == {Isotonic(Scale \div 4, (3 * Scale) \div 4),
                 Isotonic(Scale \div 2, Scale \div 2)}

\* what every call records next to its result: the optional layers and the
\* clock as the call found them
Seen(bufs) ==
  [cal |-> calibrator, adjuster |-> enable_realtime_adjustment, bufs |-> bufs,
   clock |-> now]

PipeTick(t) ==
  /\ t > now
  /\ now' = t
  /\ UNCHANGED <<own_reports, added, buffers, out, serviceVars>>

\* PredictionService.fit_calibrator
PipeFitCalibrator(iso) ==
  /\ calibrator # None
  /\ calibrator' = Some(CalibratorFit(calibrator[1], iso))
  /\ out' = [op |-> "fit_calibrator"]
  /\ UNCHANGED <<now, own_reports, added, buffers, cache, enable_realtime_adjustment,
                 ensemble, cache_predictions, artifactVars, pc, frame, ret, version, returned>>

\* PredictionService.update_realtime_reports: nothing without an adjuster
PipeUpdateReports(lot_id, dicts) ==
  /\ buffers' = IF enable_realtime_adjustment
                THEN UpdateReports(buffers, lot_id, dicts, now) ELSE buffers
  /\ cache' = IF enable_realtime_adjustment
              THEN InvalidateLotCache(cache, lot_id) ELSE cache
  /\ out' = [op |-> "update_realtime_reports"]
  /\ UNCHANGED <<now, own_reports, added, calibrator, enable_realtime_adjustment,
                 ensemble, cache_predictions, artifactVars, pc, frame, ret, version, returned>>

\* PredictionService.predict_batch, from the cache lookup to the return
PipePredictBatch(lot_ids, start_time, end_time) ==
  LET cache_key == GetCacheKey(lot_ids, start_time, end_time)
      hit == /\ cache_predictions
             /\ cache_key \in DOMAIN cache
             /\ IsFresh(now - cache[cache_key].time)
      forecast == ForecastTable(lot_ids, start_time, end_time)
      predictions == ReconcileBatch(forecast, calibrator, enable_realtime_adjustment,
                                    buffers, now)
  IN  /\ cache' = IF ~hit /\ cache_predictions
                  THEN Put(cache, cache_key,
                           [time |-> now, table |-> predictions, ver |-> version])
                  ELSE cache
      /\ out' = [op |-> "predict_batch", lot_ids |-> lot_ids, hit |-> hit,
                 forecast |-> forecast, seen |-> Seen(buffers),
                 result |-> IF hit THEN cache[cache_key].table ELSE predictions]
      /\ UNCHANGED <<now, own_reports, added, buffers, calibrator,
                     enable_realtime_adjustment, ensemble, cache_predictions, artifactVars, pc,
                     frame, ret, version, returned>>

\* PredictionService.predict_single with the features supplied
PipePredictSingle(lot_id, timestamp, recent_reports) ==
  /\ buffers' = BuffersAfterSingle(lot_id, recent_reports,
                                   enable_realtime_adjustment, buffers, now)
  /\ out' = [op |-> "predict_single", lot_id |-> lot_id,
             recent_reports |-> recent_reports,
             forecast |-> Prediction(ModelPredict(lot_id, timestamp), lot_id,
                                     timestamp),
             seen |-> Seen(buffers'),
             result |-> PredictSingle(lot_id, timestamp, recent_reports, calibrator,
                                      enable_realtime_adjustment, buffers, now)]
  /\ UNCHANGED <<now, own_reports, added, serviceVars>>

\* calibrate with "calibrated = predictions" in place of predictions.copy():
\* the new confidence column is written into the caller's table
CalibrateCallInPlace(cal, predictions) ==
  LET call == Calibrate(cal, predictions)
  IN  [call |-> call, input_after |-> call.value[1]]

\* a call of calibrate: what it returns and the caller's table afterwards;
\* the confidence column is assigned in calibrated = predictions.copy()
CalibrateCall(cal, predictions) ==
  [call |-> Calibrate(cal, predictions), input_after |-> predictions]

\* a call of calibrate_single: what it returns and the caller's
\* PredictionOutput afterwards
CalibrateSingleCall(cal, prediction) ==
  [call |-> CalibrateSingle(cal, prediction), input_after |-> prediction]

\* Calibrator.calibrate called on the service's calibrator
PipeCalibrate(predictions) ==
  /\ calibrator # None
  /\ out' = [op |-> "calibrate", input |-> predictions, seen |-> Seen(buffers),
             call |-> CalibrateCall(calibrator[1], predictions).call,
             input_after |-> CalibrateCall(calibrator[1], predictions).input_after]
  /\ UNCHANGED <<now, own_reports, added, buffers, serviceVars>>

\* Calibrator.calibrate_single called on the service's calibrator
PipeCalibrateSingle(prediction) ==
  /\ calibrator # None
  /\ out' = [op |-> "calibrate_single", input |-> prediction, seen |-> Seen(buffers),
             call |-> CalibrateSingleCall(calibrator[1], prediction).call,
             input_after |-> CalibrateSingleCall(calibrator[1], prediction).input_after]
  /\ UNCHANGED <<now, own_reports, added, buffers, serviceVars>>

\* the methods Calibrator is constructed with
PipeMethods == {"isotonic", "platt", "temperature", "beta"}

\* Calibrator(method) constructed on its own
PipeNewCalibrator(method) ==
  /\ out' = [op |-> "Calibrator", method |-> method, call |-> CalibratorInit(method)]
  /\ UNCHANGED <<now, own_reports, added, buffers, serviceVars>>

\* PredictionService(enable_calibration, enable_realtime_adjustment)
InitPipeline ==
  /\ InitClock /\ InitBuffer /\ InitAdjuster /\ InitEnsemble /\ InitArtifacts
  /\ cache = <<>>
  /\ \E enable_calibration \in BOOLEAN :
       calibrator = IF enable_calibration THEN Some(NewCalibrator) ELSE None
  /\ enable_realtime_adjustment \in BOOLEAN
  /\ cache_predictions = TRUE
  /\ pc = [c \in {"c1"} |-> "idle"]
  /\ frame = [c \in {"c1"} |-> <<>>]
  /\ ret = [c \in {"c1"} |-> [op |-> "none"]]
  /\ version = 0
  /\ returned = [l \in LotIds |-> 0]

NextPipeline ==
  \/ \E t \in PipeInstants : PipeTick(t)
  \/ \E iso \in IsotonicFits : PipeFitCalibrator(iso)
  \/ \E dicts \in PipeReportLists : PipeUpdateReports(LotA, dicts)
  \/ \E ids \in PipeLotLists, t \in PipeTimes : PipePredictBatch(ids, t, t)
  \/ \E rr \in PipeRecentReports, t \in PipeTimes : PipePredictSingle(LotA, t, rr)
  \/ \E ids \in PipeLotLists, t \in PipeTimes : PipeCalibrate(ForecastTable(ids, t, t))
  \/ \E t \in PipeTimes : PipeCalibrateSingle(Prediction(ModelPredict(LotA, t), LotA, t))
  \/ \E method \in PipeMethods : PipeNewCalibrator(method)

SpecPipeline == InitPipeline /\ [][NextPipeline]_vars

----------------------------------------------------------------------------
(* Claims about the optional layers of PredictionService, under            *)
(* SpecPipeline                                                            *)

\* the calibrator a call found is absent or not fitted
NoCalibration(seen) == seen.cal = None \/ ~seen.cal[1].is_fitted

\* how many reports of the lot lie within the last COUNT_WINDOW minutes
RecentReports(seen, lot_id) ==
  IF lot_id \in DOMAIN seen.bufs
  THEN Cardinality({i \in 1..Len(seen.bufs[lot_id]) :
                      seen.clock - seen.bufs[lot_id][i].ts <= COUNT_WINDOW})
  ELSE 0

\* the adjuster a call found is absent or has fewer than min_reports recent
\* reports of every lot in lots
NoAdjustment(seen, lots) ==
  ~seen.adjuster \/ \A l \in lots : RecentReports(seen, l) < min_reports

\* the optional layers a call found are all passed through
LayersOff(seen, lots) == NoCalibration(seen) /\ NoAdjustment(seen, lots)

\* Calibrator.calibrate and calibrate_single called before fit return their
\* input without raising
CalibrateBeforeFitReturnsInput ==
  (out.op \in {"calibrate", "calibrate_single"} /\ ~out.seen.cal[1].is_fitted)
    => (~out.call.raised /\ out.call.value = <<out.input>>)

\* predict_single called with the layers off returns the forecaster's output
SinglePassesThrough ==
  (out.op = "predict_single" /\ LayersOff(out.seen, {out.lot_id}))
    => out.result = out.forecast

C20_SingleAdjustsFromBuffer ==
  (out.op = "predict_single" /\ out.seen.adjuster)
    => out.result = AdjustSingle(SingleCalibrated(out.lot_id, out.forecast.timestamp,
                                                  out.seen.cal),
                                 out.seen.bufs, out.seen.clock).row


----------------------------------------------------------------------------
(* Further claims about RealtimeAdjuster, under SpecAdjuster *)

\* adjust_single has returned from a call that brought no fresh reports
SingleWithoutFreshReports ==
  out.op = "adjust_single" /\ ~Truthy(out.recent_reports)

\* C21: for the same buffers, clock and prediction, adjust_single called
\* without fresh reports returns the point estimate and bounds that adjust
\* returns for the one-row table holding that prediction.
C21_SingleEqualsBatch ==
  SingleWithoutFreshReports
    => out.result[1].row = Adjust(out.input, buffers, out.clock)[1].row

\* how many reports of the buffer are stamped within the window_minutes before
\* clock, and not after it
ReportsInsideWindow(reports, window_minutes, clock) ==
  Cardinality({j \in 1..Len(reports) :
                 /\ clock - reports[j].ts >= 0
                 /\ clock - reports[j].ts <= window_minutes})

\* the largest weight either operation computes at the prediction's time: the
\* one over the default window of 3 * decay_minutes
WeightAt(reports, timestamp, clock) ==
  GetWeightedAverage(reports, Some(timestamp), None, clock).weight

\* C22: a prediction is changed only if its lot has at least min_reports
\* reports inside the 60-minute window and the weighted-average weight at the
\* prediction's time is strictly greater than 0.1.
C22_AdjustedOnlyWhenQualified ==
  Adjusted =>
    \A i \in 1..Len(out.input) :
      LET p == out.input[i]
      IN  out.result[i].row # p
            => /\ p.lot_id \in DOMAIN buffers
               /\ ReportsInsideWindow(buffers[p.lot_id], COUNT_WINDOW, out.clock)
                    >= min_reports
               /\ WeightAt(buffers[p.lot_id], p.timestamp, out.clock) > Scale \div 10

\* the same with the weight allowed to equal 0.1, which the code's test
\* "weight < 0.1" lets through
C22_AdjustedOnlyWhenCountedAndWeighted ==
  Adjusted =>
    \A i \in 1..Len(out.input) :
      LET p == out.input[i]
      IN  out.result[i].row # p
            => /\ p.lot_id \in DOMAIN buffers
               /\ GetReportCount(buffers[p.lot_id], COUNT_WINDOW, out.clock)
                    >= min_reports
               /\ WeightAt(buffers[p.lot_id], p.timestamp, out.clock) >= Scale \div 10

\* the weighted average of the reports the call adjusted prediction p with:
\* adjust asks for a window of 2 * decay_minutes, adjust_single for the default
ReportedAverage(p) ==
  GetWeightedAverage(buffers[p.lot_id], Some(p.timestamp),
                     IF out.op = "adjust" THEN Some(decay_minutes * 2) ELSE None,
                     out.clock).avg[1]

\* the weight that goes with ReportedAverage(p)
ReportedWeight(p) ==
  GetWeightedAverage(buffers[p.lot_id], Some(p.timestamp),
                     IF out.op = "adjust" THEN Some(decay_minutes * 2) ELSE None,
                     out.clock).weight

\* x lies between a and b, inclusive
Between(x, a, b) == Min(a, b) <= x /\ x <= Max(a, b)

\* values of the constructor's adjustment_weight: 0, the default 0.3, and 1
AdjustmentWeights == {0, adjustment_weight, Scale}

\* the point estimate lines 254-265 give prediction p from the average and
\* weight of the reports, in an adjuster constructed with adjustment_weight =
\* weight
AdjustedPointWith(weight, p) ==
  Clip(p.predicted_occupancy
         + Clip(RawAdjustmentWith(weight, p.predicted_occupancy, ReportedAverage(p),
                                  ReportedWeight(p), p.confidence),
                -(max_adjustment * Scale), max_adjustment * Scale),
       0, 100 * Scale)

\* C27: a prediction to which an adjustment was applied has its point
\* estimate between the forecaster's value and the weighted average of the
\* reports, inclusive; and so has the point estimate the same reports give it
\* for every adjustment_weight of 0, 0.3 and 1.
C27_AdjustedBetweenModelAndReports ==
  Adjusted =>
    \A i \in 1..Len(out.input) :
      out.result[i].adjustment # None
        => /\ Between(out.result[i].row.predicted_occupancy,
                      out.input[i].predicted_occupancy,
                      ReportedAverage(out.input[i]))
           /\ \A weight \in AdjustmentWeights :
                Between(AdjustedPointWith(weight, out.input[i]),
                        out.input[i].predicted_occupancy,
                        ReportedAverage(out.input[i]))

\* an adjustment moved a point estimate toward an average it did not reach,
\* and the average is not one of the forecaster's values 0, 50 or 100
C27_Witness ==
  /\ Adjusted
  /\ \E i \in 1..Len(out.input) :
       /\ out.result[i].adjustment # None
       /\ out.result[i].row.predicted_occupancy # out.input[i].predicted_occupancy
       /\ out.result[i].row.predicted_occupancy # ReportedAverage(out.input[i])
       /\ ReportedAverage(out.input[i]) \notin {0, 50 * Scale, 100 * Scale}

\* the call was given no fresh reports: adjust, or adjust_single with
\* recent_reports None or empty
NoFreshReports == out.op = "adjust" \/ ~Truthy(out.recent_reports)

\* C28: adjust and adjust_single return one prediction for each one given,
\* with its confidence, lot id and timestamp; a row of a lot that has no
\* buffer or too few reports is returned as it came; the caller's table or
\* PredictionOutput is as it was; and without fresh reports so are the
\* report buffers.
C28_AdjustFrame ==
  Adjusted =>
    /\ Len(out.result) = Len(out.input)
    /\ \A i \in 1..Len(out.input) :
         LET p == out.input[i]
             q == out.result[i].row
         IN  /\ q.confidence = p.confidence
             /\ q.lot_id = p.lot_id
             /\ q.timestamp = p.timestamp
             /\ (p.lot_id \notin DOMAIN buffers
                 \/ TooFewReports(buffers[p.lot_id], out.clock)) => q = p
    /\ out.input_after = out.input
    /\ NoFreshReports => buffers = out.buffers_before

\* adjust changed the row of one lot of a two-lot table and returned the
\* other lot's row as it came
C28_Witness ==
  /\ out.op = "adjust"
  /\ Len(out.input) = 2
  /\ out.input[1].lot_id # out.input[2].lot_id
  /\ out.result[1].row # out.input[1]
  /\ out.result[2].row = out.input[2]
  /\ out.input_after = out.input

\* adjust_single without fresh reports changed a prediction from the reports
\* in the buffer
C28_WitnessSingle ==
  /\ out.op = "adjust_single"
  /\ NoFreshReports
  /\ out.result[1].row # out.input[1]
  /\ buffers = out.buffers_before


----------------------------------------------------------------------------
(* Claims about construction, under SpecStacking and SpecPipeline *)

\* the strategies EnsembleConfig documents
SupportedStrategies == {"stacking", "weighted_avg", "dynamic"}

\* C23: an ensemble with a strategy outside the supported set fails at
\* construction, so no ensemble with an unknown strategy is ever fitted or
\* asked to predict.
C23_UnknownStrategyNeverUsed ==
  (ensemble.is_fitted \/ pc["c1"] # "idle" \/ out.op = "predict")
    => ensemble.strategy \in SupportedStrategies

\* the Calibrator half of C23, under SpecPipeline: a Calibrator constructor
\* that returned was given a supported method
C23_CalibratorMethodSupported ==
  (out.op = "Calibrator" /\ ~out.call.raised)
    => (out.method \in SUPPORTED_METHODS /\ out.call.value[1].method = out.method)


----------------------------------------------------------------------------
(* Claims about the weighted average, under SpecCombine *)

\* predict was called on a weighted_avg ensemble
WeightedAvgPredict == out.op = "predict" /\ ensemble.strategy = "weighted_avg"

\* the weights applied sum to 1, and without the sequence forecaster the
\* combination is the gradient-boosted forecaster's point and bounds
WeightsSumToOne ==
  LET w == NormalizedWeights(ensemble, out.tft_available)
      c == Combination(ensemble, out.tft_preds, out.lgb_preds, out.tft_available)
  IN  /\ w.tft_w + w.lgb_w = Scale
      /\ ~out.tft_available
           => /\ c.predictions = out.lgb_preds.predicted_occupancy
              /\ c.lower_bounds = out.lgb_preds.lower_bound
              /\ c.upper_bounds = out.lgb_preds.upper_bound

\* C24: in the weighted_avg strategy the weights applied at inference sum to 1
\* for every configured (tft_weight, lgb_weight) and every availability of the
\* sequence forecaster, and without the sequence forecaster the combined point
\* and bounds are the gradient-boosted forecaster's.
C24_WeightsRenormalised ==
  WeightedAvgPredict => (~out.raised /\ WeightsSumToOne)

\* the same for the configurations whose two weights do not sum to 0
C24_WeightsRenormalisedNonZeroSum ==
  (WeightedAvgPredict /\ ensemble.tft_weight + ensemble.lgb_weight # 0)
    => (~out.raised /\ WeightsSumToOne)


----------------------------------------------------------------------------
(* Claims about what calibration leaves alone, under SpecPipeline *)

\* p and q agree in every field but the confidence
SameButConfidence(p, q) ==
  /\ q.predicted_occupancy = p.predicted_occupancy
  /\ q.lower_bound = p.lower_bound
  /\ q.upper_bound = p.upper_bound
  /\ q.lot_id = p.lot_id
  /\ q.timestamp = p.timestamp

\* C29: calibrate returns a table with the rows of its input, and
\* calibrate_single a prediction, in which the predicted value, the bounds,
\* the lot id and the timestamp are those of the input; the caller's table or
\* PredictionOutput is as it was.
C29_CalibrationChangesOnlyConfidence ==
  /\ out.op = "calibrate"
       => /\ ~out.call.raised
          /\ Len(out.call.value[1]) = Len(out.input)
          /\ \A i \in 1..Len(out.input) :
               SameButConfidence(out.input[i], out.call.value[1][i])
          /\ out.input_after = out.input
  /\ out.op = "calibrate_single"
       => /\ ~out.call.raised
          /\ SameButConfidence(out.input, out.call.value[1])
          /\ out.input_after = out.input

\* a fitted calibrator gave every row of a two-row table another confidence
C29_Witness ==
  /\ out.op = "calibrate"
  /\ calibrator[1].is_fitted
  /\ Len(out.input) = 2
  /\ \A i \in 1..2 : out.call.value[1][i].confidence # out.input[i].confidence
  /\ out.input_after = out.input

\* a fitted calibrator gave a single prediction another confidence
C29_WitnessSingle ==
  /\ out.op = "calibrate_single"
  /\ calibrator[1].is_fitted
  /\ out.call.value[1].confidence # out.input.confidence

----------------------------------------------------------------------------
(* SpecLoad: a PredictionService that has not loaded its forecaster yet,   *)
(* artifact directories being saved and removed, and the calls that reach  *)
(* for the forecaster                                                      *)

\* the calls that read self.model
AccessOps == {"predict_batch", "predict_single", "get_model_info"}

\* an artifact directory written by another tool: a TFT checkpoint whose
\* metadata.json names the model
ForeignDirs ==
  {Directory({"model.pt", "metadata.json"}, {},
             Some(Metadata({"config", "scaler_params", "model_version", "model_name"},
                           Some(<<"T", "F", "T">>))),
             "foreign")}

\* history kept in out: an access has failed before
Failed(r) == out.failed \/ r.raised # None

\* a fitted forecaster of a kind is saved to a path
LoadSave(kind, path) ==
  /\ disk' = [disk EXCEPT ![path] = SaveOver(@, Saved(kind))]
  /\ out' = [op |-> "save", failed |-> out.failed]
  /\ UNCHANGED <<now, own_reports, added, buffers, cache, calibrator,
                 enable_realtime_adjustment, ensemble, cache_predictions, pc, frame,
                 ret, version, returned, model, model_path>>

\* a directory written elsewhere is put at a path that holds nothing
LoadPlace(dir, path) ==
  /\ disk[path] = None
  /\ disk' = [disk EXCEPT ![path] = Some(dir)]
  /\ out' = [op |-> "place", failed |-> out.failed]
  /\ UNCHANGED <<now, own_reports, added, buffers, cache, calibrator,
                 enable_realtime_adjustment, ensemble, cache_predictions, pc, frame,
                 ret, version, returned, model, model_path>>

\* shutil.rmtree(latest_path) of the trainer's _save_model
LoadRemove(path) ==
  /\ disk[path] # None
  /\ disk' = [disk EXCEPT ![path] = None]
  /\ out' = [op |-> "rmtree", failed |-> out.failed]
  /\ UNCHANGED <<now, own_reports, added, buffers, cache, calibrator,
                 enable_realtime_adjustment, ensemble, cache_predictions, pc, frame,
                 ret, version, returned, model, model_path>>

\* what a call that reached for the forecaster records
AccessOut(op, r, hit) ==
  [op |-> op, raised |-> r.raised, attempted |-> r.attempted, hit |-> hit,
   failed |-> Failed(r), failed_before |-> out.failed]

\* PredictionService.get_model_info
LoadGetModelInfo ==
  LET r == ModelAccess(model, model_path, disk)
  IN  /\ model' = r.model
      /\ model_path' = r.model_path
      /\ out' = AccessOut("get_model_info", r, FALSE)
      /\ UNCHANGED <<now, own_reports, added, buffers, cache, calibrator,
                     enable_realtime_adjustment, ensemble, cache_predictions, pc,
                     frame, ret, version, returned, disk>>

\* PredictionService.predict_single with the features supplied and no reports
LoadPredictSingle ==
  LET r == ModelAccess(model, model_path, disk)
  IN  /\ model' = r.model
      /\ model_path' = r.model_path
      /\ out' = AccessOut("predict_single", r, FALSE)
      /\ UNCHANGED <<now, own_reports, added, buffers, cache, calibrator,
                     enable_realtime_adjustment, ensemble, cache_predictions, pc,
                     frame, ret, version, returned, disk>>

\* PredictionService.predict_batch: a fresh cache entry is returned before the
\* forecaster is reached for; otherwise the table is stored only after the
\* forecaster predicted
LoadPredictBatch(lot_ids, start_time, end_time) ==
  LET cache_key == GetCacheKey(lot_ids, start_time, end_time)
      hit == /\ cache_predictions
             /\ cache_key \in DOMAIN cache
             /\ IsFresh(now - cache[cache_key].time)
      r == IF hit
           THEN [raised |-> None, model |-> model, model_path |-> model_path,
                 attempted |-> FALSE]
           ELSE ModelAccess(model, model_path, disk)
      predictions == ReconcileBatch(ForecastTable(lot_ids, start_time, end_time),
                                    calibrator, enable_realtime_adjustment, buffers,
                                    now)
  IN  /\ model' = r.model
      /\ model_path' = r.model_path
      /\ cache' = IF ~hit /\ r.raised = None /\ cache_predictions
                  THEN Put(cache, cache_key,
                           [time |-> now, table |-> predictions, ver |-> version])
                  ELSE cache
      /\ out' = AccessOut("predict_batch", r, hit)
      /\ UNCHANGED <<now, own_reports, added, buffers, calibrator,
                     enable_realtime_adjustment, ensemble, cache_predictions, pc,
                     frame, ret, version, returned, disk>>

\* PredictionService(model_path) on a machine without artifacts
InitLoad ==
  /\ InitClock /\ InitBuffer /\ InitEnsemble
  /\ buffers = <<>>
  /\ out = [op |-> "none", failed |-> FALSE]
  /\ disk = [p \in Paths |-> None]
  /\ model = None
  /\ model_path \in {None} \cup {Some(p) : p \in Paths}
  /\ cache = <<>>
  /\ calibrator = Some(NewCalibrator)
  /\ enable_realtime_adjustment = TRUE
  /\ cache_predictions = TRUE
  /\ pc = [c \in {"c1"} |-> "idle"]
  /\ frame = [c \in {"c1"} |-> <<>>]
  /\ ret = [c \in {"c1"} |-> [op |-> "none"]]
  /\ version = 0
  /\ returned = [l \in LotIds |-> 0]

NextLoad ==
  \/ \E kind \in Kinds, path \in Paths : LoadSave(kind, path)
  \/ \E dir \in ForeignDirs, path \in Paths : LoadPlace(dir, path)
  \/ \E path \in Paths : LoadRemove(path)
  \/ LoadGetModelInfo
  \/ LoadPredictSingle
  \/ \E ids \in PipeLotLists, t \in PipeTimes : LoadPredictBatch(ids, t, t)

SpecLoad == InitLoad /\ [][NextLoad]_vars

----------------------------------------------------------------------------
(* Claims about loading the forecaster, under SpecLoad *)

\* the path _load_model looks at
ArtifactPath == IF model_path = None THEN DefaultPath ELSE model_path[1]

\* this step is a call that goes for the forecaster while none is retained
AccessWithoutModel ==
  /\ disk' = disk
  /\ out' # out
  /\ out'.op \in AccessOps
  /\ ~out'.hit
  /\ model = None

\* C25: when the artifact path is absent, an access of the model fails with a
\* model-not-found error, no model is retained, nothing is written to the
\* cache, and every access made while no model is retained attempts the load.
C25_AbsentPathFailsAndRetries ==
  [][AccessWithoutModel
       => /\ out'.attempted
          /\ (disk[ArtifactPath] = None
                => /\ out'.raised = Some("FileNotFoundError")
                   /\ model' = None
                   /\ cache' = cache)]_vars

\* an access failed on an absent path, and after the artifact was saved a
\* later predict_batch loaded the forecaster and stored its table
C25_Witness ==
  /\ out.op = "predict_batch"
  /\ out.failed_before
  /\ out.attempted
  /\ out.raised = None
  /\ model # None
  /\ cache # <<>>

\* C30: an access that loads from a directory last written by the save of a
\* forecaster kind loads a forecaster of that kind.
C30_LoadSelectsSavedKind ==
  (/\ out.op \in AccessOps
   /\ out.attempted
   /\ disk[ArtifactPath] # None
   /\ disk[ArtifactPath][1].saved_by \in Kinds)
    => (/\ out.raised = None
        /\ model # None
        /\ model[1].kind = disk[ArtifactPath][1].saved_by)

\* the same for directories that held nothing before the save, and for the
\* ensemble and gradient-boosted forecasters only
C30_LoadSelectsSavedKindExceptTft ==
  (/\ out.op \in AccessOps
   /\ out.attempted
   /\ disk[ArtifactPath] # None
   /\ disk[ArtifactPath][1] \in {EnsSaved, LgbSaved})
    => (/\ out.raised = None
        /\ model # None
        /\ model[1].kind = disk[ArtifactPath][1].saved_by)


----------------------------------------------------------------------------
(* SpecKey: predict_batch requests with all their inputs, and the cache *)

LotB == <<"B">>
LotAB == <<"A", "_", "B">>

\* the lists of lot ids asked for: "A", "A" and "B" in both orders, and the
\* one lot "A_B"
KeyLotLists == {<<LotA>>, <<LotA, LotB>>, <<LotB, LotA>>, <<LotAB>>}
KeyIntervals == {interval_minutes, 2 * interval_minutes}
\* weather_forecast and events: not given, or a table
KeyWeather == {None, Some("rain")}
KeyEvents == {None, Some("game")}
KeyStart == {0}
KeyEnd == {2 * interval_minutes}

BatchRequest(lot_ids, start_time, end_time, interval, weather_forecast, events) ==
  [lot_ids |-> lot_ids, start_time |-> start_time, end_time |-> end_time,
   interval_minutes |-> interval, weather_forecast |-> weather_forecast,
   events |-> events]

\* pd.date_range(start_time, end_time, freq=f"{interval_minutes}T")
RECURSIVE DateRangeEvery(_, _, _)
DateRangeEvery(start_time, end_time, interval) ==
  IF start_time > end_time THEN <<>>
  ELSE <<start_time>> \o DateRangeEvery(start_time + interval, end_time, interval)

\* predict_batch, lines 157-194: the records of the request's grid and the
\* forecaster's values with the lot_id and timestamp columns
RequestTable(request) ==
  LET records == Records(request.lot_ids,
                         DateRangeEvery(request.start_time, request.end_time,
                                        request.interval_minutes))
  IN  [i \in 1..Len(records) |->
         LET f == ModelPredict(records[i].lot_id, records[i].timestamp)
         IN  [predicted_occupancy |-> f.predicted_occupancy,
              confidence |-> f.confidence,
              lower_bound |-> f.lower_bound, upper_bound |-> f.upper_bound,
              lot_id |-> records[i].lot_id, timestamp |-> records[i].timestamp]]

\* PredictionService.predict_batch; every cache entry remembers the request
\* that produced it
KeyPredictBatch(request) ==
  LET cache_key == GetCacheKey(request.lot_ids, request.start_time,
                               request.end_time)
      hit == /\ cache_predictions
             /\ cache_key \in DOMAIN cache
             /\ IsFresh(now - cache[cache_key].time)
      predictions == ReconcileBatch(RequestTable(request), calibrator,
                                    enable_realtime_adjustment, buffers, now)
  IN  /\ cache' = IF ~hit /\ cache_predictions
                  THEN Put(cache, cache_key,
                           [time |-> now, table |-> predictions, ver |-> version,
                            request |-> request])
                  ELSE cache
      /\ out' = [op |-> "predict_batch", request |-> request, hit |-> hit,
                 producer |-> IF hit THEN cache[cache_key].request ELSE request,
                 table |-> IF hit THEN cache[cache_key].table ELSE predictions]
      /\ UNCHANGED <<now, own_reports, added, buffers, calibrator,
                     enable_realtime_adjustment, ensemble, cache_predictions,
                     artifactVars, pc, frame, ret, version, returned>>

\* PredictionService.clear_cache
KeyClearCache ==
  /\ cache' = <<>>
  /\ out' = [op |-> "clear_cache"]
  /\ UNCHANGED <<now, own_reports, added, buffers, calibrator,
                 enable_realtime_adjustment, ensemble, cache_predictions,
                 artifactVars, pc, frame, ret, version, returned>>

InitKey ==
  /\ InitClock /\ InitBuffer /\ InitAdjuster /\ InitEnsemble /\ InitArtifacts
  /\ cache = <<>>
  /\ calibrator = Some(NewCalibrator)
  /\ enable_realtime_adjustment = TRUE
  /\ cache_predictions = TRUE
  /\ pc = [c \in {"c1"} |-> "idle"]
  /\ frame = [c \in {"c1"} |-> <<>>]
  /\ ret = [c \in {"c1"} |-> [op |-> "none"]]
  /\ version = 0
  /\ returned = [l \in LotIds |-> 0]

NextKey ==
  \/ \E ids \in KeyLotLists, start_time \in KeyStart, end_time \in KeyEnd,
        interval \in KeyIntervals, weather_forecast \in KeyWeather,
        events \in KeyEvents :
       KeyPredictBatch(BatchRequest(ids, start_time, end_time, interval,
                                    weather_forecast, events))
  \/ KeyClearCache

SpecKey == InitKey /\ [][NextKey]_vars

----------------------------------------------------------------------------
(* Claims about the cache key, under SpecKey *)

\* the set of the lot ids of a list
LotSet(lot_ids) == {lot_ids[i] : i \in 1..Len(lot_ids)}

\* two requests with the same entity set, time range, interval_minutes,
\* weather and events
SameRequest(r1, r2) ==
  /\ LotSet(r1.lot_ids) = LotSet(r2.lot_ids)
  /\ r1.start_time = r2.start_time
  /\ r1.end_time = r2.end_time
  /\ r1.interval_minutes = r2.interval_minutes
  /\ r1.weather_forecast = r2.weather_forecast
  /\ r1.events = r2.events

\* C26: a predict_batch answered from the cache gets an entry produced by a
\* request with the same entity set, time range, interval_minutes, weather and
\* events.
C26_CacheSharedOnlyBySameRequest ==
  (out.op = "predict_batch" /\ out.hit) => SameRequest(out.request, out.producer)

\* what the key does separate: a request answered from the cache has the time
\* range of the request that produced the entry, and its sorted lot ids join
\* to the same string
C26_CacheSharedOnlyBySameKey ==
  (out.op = "predict_batch" /\ out.hit)
    => /\ out.request.start_time = out.producer.start_time
       /\ out.request.end_time = out.producer.end_time
       /\ Join(<<"_">>, Sorted(out.request.lot_ids))
            = Join(<<"_">>, Sorted(out.producer.lot_ids))

\* a request for the lot "A_B" answered with the table computed for "A" and "B"
C26_JoinedIdsCollide ==
  ~(/\ out.op = "predict_batch" /\ out.hit
    /\ out.request.lot_ids = <<LotAB>>
    /\ LotSet(out.producer.lot_ids) = {LotA, LotB})

====
